---- MODULE Spec2Model ----
(***************************************************************************)
(* Transaction cache of the NTTA toll expenser (utils/transactionCache.js) *)
(* on top of SecureStorage (utils/secureStorage.js), and the handlers of   *)
(* the viewer that use it (TransactionViewer.jsx, App.jsx).                *)
(*                                                                         *)
(* Spec       the cache functions, each call run to its end                *)
(* SpecMerge  mergeWithCache as a pure function                            *)
(* SpecStore  one SecureStorage instance, calls awaited one by one         *)
(* SpecKey    one SecureStorage instance under concurrent calls            *)
(* SpecUI     fetch and logout in the viewer, cache calls not awaited      *)
(* SpecFetch  one fetch in the viewer over a medium that may fail          *)
(* SpecCodec  encrypt and decrypt as functions of value, key and IV        *)
(* SpecLimiter the login rate limiter (utils/validation.js)                *)
(* SpecProxy  the API proxy worker (workers/api-proxy.js)                  *)
(* SpecIdle   the idle timer of App.jsx, with fair timers and awaits       *)
(* SpecMigrate migrateToSecureStorage, then the calls of the instance      *)
(* SpecRecency cacheTransactions while the clock runs during the call      *)
(* SpecPages  fetchTransactions (utils/api.js) against a server that       *)
(*            answers every request and ends with a short page             *)
(*                                                                         *)
(* Instants are milliseconds read on the local clock.  A date field of a   *)
(* record is either an instant (a parseable timestamp), Undefined (the     *)
(* field is absent) or BadDate (a string Date cannot parse).               *)
(***************************************************************************)
EXTENDS Integers, Sequences, FiniteSets, TLC

VARIABLES
  storage,   \* what localStorage holds under CACHE_KEY
  now,       \* the wall clock
  last,      \* the call that just completed: its arguments and its outcome
  mergeArgs, \* arguments of the last mergeWithCache call
  merged,    \* result of the last mergeWithCache call
  ss,        \* one SecureStorage instance and the medium under one key
  ui,        \* the transaction viewer: its handlers and the calls in flight
  codec,     \* encrypt and decrypt: the last call, the run of encrypt calls
  rateLimitStore, \* the Map of checkRateLimit, and what its calls answered
  idle,      \* the idle timer of the application shell
  proxy,     \* the API proxy worker: the request at hand and its answer
  api        \* one fetchTransactions call: its locals and its promise

\* the parts of the state outside the transaction cache and its users
others == <<codec, rateLimitStore, idle, proxy, api>>

vars == <<storage, now, last, mergeArgs, merged, ss, ui, others>>

-----------------------------------------------------------------------------
(* Bounds *)

MaxBatch == 2

\* calls issued on one SecureStorage instance at the same time
MaxCallers == 2

\* key derivations one instance is followed through
MaxDerivations == 3

\* clicks on Fetch Transactions one viewer is followed through
MaxCycles == 2

-----------------------------------------------------------------------------
(* Constants of the code *)

RECENT_TRANSACTION_THRESHOLD_DAYS == 3
MS_PER_HOUR == 60 * 60 * 1000
MS_PER_DAY == 1000 * 60 * 60 * 24
RECENT_CACHE_DURATION_MS == 60 * 60 * 1000
OLD_CACHE_DURATION_MS == 7 * 24 * 60 * 60 * 1000

-----------------------------------------------------------------------------
(* JavaScript values *)

Undefined == -1
BadDate == -2
NaN == -3

\* new Date(x).getTime(): NaN for undefined and for an unparseable string
NewDate(x) == IF x < 0 THEN NaN ELSE x

\* a < b, a <= b, a >= b on numbers: false as soon as one side is NaN
NumLt(a, b) == a # NaN /\ b # NaN /\ a < b
NumLe(a, b) == a # NaN /\ b # NaN /\ a <= b
NumGe(a, b) == a # NaN /\ b # NaN /\ a >= b

\* a - b on numbers
NumSub(a, b) == IF a = NaN \/ b = NaN THEN NaN ELSE a - b

\* new Date('yyyy-MM-dd'): a date-only string is UTC midnight of that day;
\* the day is given by its index, the result is read on the local clock
NewDateOnly(day, offset) == day * MS_PER_DAY + offset

\* d.setHours(0, 0, 0, 0) and d.setHours(23, 59, 59, 999): local day of d
SetHoursStart(t) == (t \div MS_PER_DAY) * MS_PER_DAY
SetHoursEnd(t) == (t \div MS_PER_DAY) * MS_PER_DAY + (MS_PER_DAY - 1)

-----------------------------------------------------------------------------
(* Records *)

Tx(id, tripDate, entry, amount) ==
  [isNull |-> FALSE, CustomerTripId |-> id, TripDate |-> tripDate,
   Entry_TripDateTime |-> entry, TollAmount |-> amount]

\* a null element of a list
NullTx ==
  [isNull |-> TRUE, CustomerTripId |-> 0, TripDate |-> Undefined,
   Entry_TripDateTime |-> Undefined, TollAmount |-> 0]

\* the clock at the start: noon of day Day0
Day0 == 5
\* logins of a run, and the minutes the clock runs
MaxLogins == 2
MaxIdleMinutes == 30
\* submissions of the login form, and waits between them
MaxChecks == 7
MaxWaits == 3
\* encrypt calls in a row
MaxEncrypts == 2
T0 == Day0 * MS_PER_DAY + 12 * MS_PER_HOUR

\* what the remote API supplies: the timestamp is in Entry_TripDateTime
ApiToday == Tx(1, Undefined, Day0 * MS_PER_DAY, -250)
\* records that carry a TripDate field
TdToday == Tx(1, Day0 * MS_PER_DAY, Undefined, -200)
TdOld == Tx(2, T0 - 4 * MS_PER_DAY, Undefined, -300)
\* 2 days 23 hours old at T0, 3 days old an hour later
TdEdge == Tx(2, T0 - 3 * MS_PER_DAY + MS_PER_HOUR, Undefined, -350)
\* malformed records
TdBad == Tx(2, BadDate, Undefined, -400)
NoIdTx == Tx(0, Day0 * MS_PER_DAY, Undefined, -500)

Records == {ApiToday, TdToday, TdOld, TdEdge, TdBad, NoIdTx, NullTx}

Lists == UNION {[1..n -> Records] : n \in 0..MaxBatch}

\* the argument of cacheTransactions: an array, or something else
NotAnArray == [isArray |-> FALSE, items |-> <<>>]
ArrayOf(items) == [isArray |-> TRUE, items |-> items]
Arguments == {NotAnArray} \cup {ArrayOf(l) : l \in Lists}

\* the date strings a caller passes, as day indexes
Ranges == {<<Day0, Day0>>, <<Day0 - 4, Day0>>, <<Day0 - 4, Day0 - 4>>}

\* clock readings the model visits
ClockReadings ==
  {T0, T0 + MS_PER_HOUR, T0 + 2 * MS_PER_HOUR, T0 + 8 * MS_PER_DAY}

\* local time minus UTC where the browser runs: US Central time, or UTC
TZOffsets == {0 - 6 * MS_PER_HOUR, 0}

-----------------------------------------------------------------------------
(* SecureStorage over localStorage, for the one key CACHE_KEY *)

EmptyContainer == [transactions |-> <<>>, metadata |-> <<>>]

\* the key is not in the medium
Absent == [kind |-> "absent", val |-> EmptyContainer]
\* an ENC: envelope that decrypts to c with the instance's key
Encrypted(c) == [kind |-> "enc", val |-> c]
\* legacy plaintext JSON of c, written before the cache was encrypted
Plain(c) == [kind |-> "plain", val |-> c]
\* an ENC: envelope the instance's key does not decrypt
Corrupt == [kind |-> "corrupt", val |-> EmptyContainer]

\* one change of the medium under CACHE_KEY: op is "setItem" or "removeItem",
\* by is the function that made it, at is the number of records of the batch
\* processed before it
WriteEvent(op, by, at) == [op |-> op, by |-> by, at |-> at]

\* setItem(key, value): ok is whether encrypt and storage.setItem succeed;
\* a failure is caught and the medium is left as it was
SetItem(store, value, ok) == IF ok THEN Encrypted(value) ELSE store

\* getItem(key): the value (found = FALSE for null), the medium afterwards
\* and the changes made to it
GetItem(store, ok) ==
  CASE store.kind = "absent" ->
         [found |-> FALSE, value |-> EmptyContainer, store |-> store, log |-> <<>>]
    [] store.kind = "enc" ->
         [found |-> TRUE, value |-> store.val, store |-> store, log |-> <<>>]
    [] store.kind = "corrupt" ->
         [found |-> FALSE, value |-> EmptyContainer, store |-> Absent,
          log |-> <<WriteEvent("removeItem", "getItem", 0)>>]
    [] store.kind = "plain" ->
         [found |-> TRUE, value |-> store.val,
          store |-> SetItem(store, store.val, ok),
          log |-> IF ok THEN <<WriteEvent("setItem", "getItem", 0)>> ELSE <<>>]

-----------------------------------------------------------------------------
(* transactionCache.js *)

getCache(store, ok) ==
  LET g == GetItem(store, ok)
  IN [cache |-> IF g.found THEN g.value ELSE EmptyContainer,
      store |-> g.store, log |-> g.log]

saveCache(store, cache, ok, at) ==
  [store |-> SetItem(store, cache, ok),
   log |-> IF ok THEN <<WriteEvent("setItem", "saveCache", at)>> ELSE <<>>]

\* isRecentTransaction(transaction), with new Date() reading clock; reading
\* TripDate of null throws, and the catch answers true
isRecentTransaction(transaction, clock) ==
  IF transaction.isNull THEN TRUE
  ELSE LET tripDate == NewDate(transaction.TripDate)
           msAgo == NumSub(clock, tripDate)
       IN NumLt(msAgo, RECENT_TRANSACTION_THRESHOLD_DAYS * MS_PER_DAY)

getCacheDuration(transaction, clock) ==
  IF isRecentTransaction(transaction, clock)
  THEN RECENT_CACHE_DURATION_MS
  ELSE OLD_CACHE_DURATION_MS

\* truthiness of transaction.CustomerTripId: undefined, 0 and '' are 0 here
Truthy(id) == id # 0

\* CacheOne with a bug: an identifier already in the container keeps its
\* entry and its metadata
CacheOne_KeepExisting(st, transaction, clock) ==
  IF st.threw THEN st
  ELSE IF transaction.isNull THEN [st EXCEPT !.threw = TRUE]
  ELSE LET id == transaction.CustomerTripId IN
    IF ~Truthy(id) \/ id \in DOMAIN st.cache.transactions
    THEN [st EXCEPT !.processed = @ + 1]
    ELSE LET cacheDuration == getCacheDuration(transaction, clock)
             meta == [cachedAt |-> clock, expiresAt |-> clock + cacheDuration,
                      isRecent |-> isRecentTransaction(transaction, clock)]
         IN [st EXCEPT
               !.cache = [transactions |-> (id :> transaction) @@ @.transactions,
                          metadata |-> (id :> meta) @@ @.metadata],
               !.processed = @ + 1]

\* the body of the forEach of cacheTransactions with its three readings
\* of the clock: clock is the Date.now() taken before the forEach,
\* atDuration the new Date() of the isRecentTransaction inside
\* getCacheDuration, atFlag the new Date() of the isRecentTransaction that
\* gives isRecent
CacheOneAt(st, transaction, clock, atDuration, atFlag) ==
  IF st.threw THEN st
  ELSE IF transaction.isNull THEN [st EXCEPT !.threw = TRUE]
  ELSE LET id == transaction.CustomerTripId IN
    IF ~Truthy(id) THEN [st EXCEPT !.processed = @ + 1]
    ELSE LET cacheDuration == getCacheDuration(transaction, atDuration)
             meta == [cachedAt |-> clock, expiresAt |-> clock + cacheDuration,
                      isRecent |-> isRecentTransaction(transaction, atFlag)]
         IN [st EXCEPT
               !.cache = [transactions |-> (id :> transaction) @@ @.transactions,
                          metadata |-> (id :> meta) @@ @.metadata],
               !.processed = @ + 1]

\* the body of the forEach of cacheTransactions when its readings of the
\* clock fall in one millisecond; st.threw is set when the body throws,
\* which ends the forEach
CacheOne(st, transaction, clock) ==
  CacheOneAt(st, transaction, clock, clock, clock)

RECURSIVE ForEachCacheAt(_, _, _, _, _)
ForEachCacheAt(st, items, clock, atDuration, atFlag) ==
  IF items = <<>> THEN st
  ELSE ForEachCacheAt(CacheOneAt(st, Head(items), clock, atDuration, atFlag),
                      Tail(items), clock, atDuration, atFlag)

\* cacheTransactions(transactions) with the readings of the clock told
\* apart
cacheTransactionsAt(arg, store, clock, atDuration, atFlag, okLoad, okSave) ==
  IF ~arg.isArray
  THEN [store |-> store, log |-> <<>>, cache |-> EmptyContainer,
        threw |-> FALSE, saved |-> FALSE]
  ELSE LET g == getCache(store, okLoad)
           st == ForEachCacheAt([cache |-> g.cache, threw |-> FALSE,
                                 processed |-> 0],
                                arg.items, clock, atDuration, atFlag)
           s == saveCache(g.store, st.cache, okSave, st.processed)
       IN IF st.threw
          THEN [store |-> g.store, log |-> g.log, cache |-> st.cache,
                threw |-> TRUE, saved |-> FALSE]
          ELSE [store |-> s.store, log |-> g.log \o s.log, cache |-> st.cache,
                threw |-> FALSE, saved |-> okSave]

\* the clock around the instant TdEdge stops being recent, and how long
\* after Date.now() a new Date() of the same call can read
EdgeReadings ==
  {T0 + MS_PER_HOUR - 2, T0 + MS_PER_HOUR - 1, T0 + MS_PER_HOUR,
   T0 + MS_PER_HOUR + 1}
Drifts == {0, 1}

RECURSIVE ForEachCache(_, _, _)
ForEachCache(st, items, clock) ==
  IF items = <<>> THEN st
  ELSE ForEachCache(CacheOne(st, Head(items), clock), Tail(items), clock)

\* cacheTransactions with a bug: the container is saved inside the forEach,
\* once per record
cacheTransactions_SavePerRecord(arg, store, clock, okLoad, okSave) ==
  IF ~arg.isArray
  THEN [store |-> store, log |-> <<>>, cache |-> EmptyContainer,
        threw |-> FALSE, saved |-> FALSE]
  ELSE LET g == getCache(store, okLoad)
           st == ForEachCache([cache |-> g.cache, threw |-> FALSE, processed |-> 0],
                              arg.items, clock)
           perRecord == [i \in 1..st.processed |->
                           WriteEvent("setItem", "saveCache", i)]
       IN [store |-> SetItem(g.store, st.cache, okSave),
           log |-> g.log \o (IF okSave THEN perRecord ELSE <<>>),
           cache |-> st.cache, threw |-> st.threw,
           saved |-> okSave /\ ~st.threw]

\* cacheTransactions(transactions): the medium afterwards, the changes made
\* to it, the container built in memory, and whether the body threw
cacheTransactions(arg, store, clock, okLoad, okSave) ==
  IF ~arg.isArray
  THEN [store |-> store, log |-> <<>>, cache |-> EmptyContainer,
        threw |-> FALSE, saved |-> FALSE]
  ELSE LET g == getCache(store, okLoad)
           st == ForEachCache([cache |-> g.cache, threw |-> FALSE, processed |-> 0],
                              arg.items, clock)
           s == saveCache(g.store, st.cache, okSave, st.processed)
       IN IF st.threw
          THEN [store |-> g.store, log |-> g.log, cache |-> st.cache,
                threw |-> TRUE, saved |-> FALSE]
          ELSE [store |-> s.store, log |-> g.log \o s.log, cache |-> st.cache,
                threw |-> FALSE, saved |-> okSave]

\* Object.keys of an object whose keys are integer-like: ascending order
RECURSIVE ObjectKeys(_)
ObjectKeys(S) ==
  IF S = {} THEN <<>>
  ELSE LET m == CHOOSE x \in S : \A y \in S : x <= y
       IN <<m>> \o ObjectKeys(S \ {m})

\* delete obj[id]
Delete(obj, id) == [k \in DOMAIN obj \ {id} |-> obj[k]]

\* GetOne with a bug: an expired entry is treated like any other
GetOne_KeepExpired(st, id, clock, start, end) ==
  IF id \notin DOMAIN st.cache.transactions THEN st
  ELSE LET transaction == st.cache.transactions[id]
           tripDate == NewDate(transaction.TripDate)
       IN IF NumGe(tripDate, start) /\ NumLe(tripDate, end)
          THEN [st EXCEPT !.cached = Append(@, transaction)]
          ELSE st

\* GetOne with a bug: an expired entry is kept and given a new expiry
GetOne_RenewExpired(st, id, clock, start, end) ==
  IF id \in DOMAIN st.cache.metadata /\ st.cache.metadata[id].expiresAt < clock
  THEN [st EXCEPT
          !.cache.metadata[id].expiresAt = clock + OLD_CACHE_DURATION_MS,
          !.hasExpired = TRUE]
  ELSE st

\* GetOne with a bug: an expired entry loses its record and keeps its
\* metadata
GetOne_DropRecordOnly(st, id, clock, start, end) ==
  IF id \in DOMAIN st.cache.metadata /\ st.cache.metadata[id].expiresAt < clock
  THEN [st EXCEPT
          !.cache = [transactions |-> Delete(@.transactions, id),
                     metadata |-> @.metadata],
          !.hasExpired = TRUE]
  ELSE st

\* the body of the forEach of getCachedTransactions
GetOne(st, id, clock, start, end) ==
  IF id \in DOMAIN st.cache.metadata /\ st.cache.metadata[id].expiresAt < clock
  THEN [st EXCEPT
          !.cache = [transactions |-> Delete(@.transactions, id),
                     metadata |-> Delete(@.metadata, id)],
          !.hasExpired = TRUE]
  ELSE IF id \notin DOMAIN st.cache.transactions THEN st
  ELSE LET transaction == st.cache.transactions[id]
           tripDate == NewDate(transaction.TripDate)
       IN IF NumGe(tripDate, start) /\ NumLe(tripDate, end)
          THEN [st EXCEPT !.cached = Append(@, transaction)]
          ELSE st

RECURSIVE ForEachGet(_, _, _, _, _)
ForEachGet(st, keys, clock, start, end) ==
  IF keys = <<>> THEN st
  ELSE ForEachGet(GetOne(st, Head(keys), clock, start, end), Tail(keys),
                  clock, start, end)

\* getCachedTransactions with a bug: the container is saved at the end of
\* every call, whether or not an entry expired
getCachedTransactions_AlwaysSave(startDate, endDate, store, clock, offset, okLoad, okSave) ==
  LET g == getCache(store, okLoad)
      start == SetHoursStart(NewDateOnly(startDate, offset))
      end == SetHoursEnd(NewDateOnly(endDate, offset))
      st == ForEachGet([cache |-> g.cache, cached |-> <<>>, hasExpired |-> FALSE],
                       ObjectKeys(DOMAIN g.cache.transactions), clock, start, end)
      s == saveCache(g.store, st.cache, okSave, 0)
  IN [cached |-> st.cached, store |-> s.store, log |-> g.log \o s.log,
      cache |-> st.cache, hasExpired |-> st.hasExpired]

\* getCachedTransactions(startDate, endDate): the returned list, the medium
\* afterwards and the changes made to it
getCachedTransactions(startDate, endDate, store, clock, offset, okLoad, okSave) ==
  LET g == getCache(store, okLoad)
      start == SetHoursStart(NewDateOnly(startDate, offset))
      end == SetHoursEnd(NewDateOnly(endDate, offset))
      st == ForEachGet([cache |-> g.cache, cached |-> <<>>, hasExpired |-> FALSE],
                       ObjectKeys(DOMAIN g.cache.transactions), clock, start, end)
      s == IF st.hasExpired
           THEN saveCache(g.store, st.cache, okSave, 0)
           ELSE [store |-> g.store, log |-> <<>>]
  IN [cached |-> st.cached, store |-> s.store, log |-> g.log \o s.log,
      cache |-> st.cache, hasExpired |-> st.hasExpired]

\* cached.some(t => isRecentTransaction(t))
SomeRecent(cached, clock) ==
  \E i \in 1..Len(cached) : isRecentTransaction(cached[i], clock)

\* shouldFetchTransactions with a bug: every in place of some
shouldFetchTransactions_Every(cached, clock) ==
  IF Len(cached) = 0 THEN TRUE
  ELSE \A i \in 1..Len(cached) : isRecentTransaction(cached[i], clock)

\* shouldFetchTransactions(startDate, endDate), given what
\* getCachedTransactions returned
shouldFetchTransactions(cached, clock) ==
  IF Len(cached) = 0 THEN TRUE ELSE SomeRecent(cached, clock)

\* merged.set(t.CustomerTripId, t) on a Map kept as a sequence of records in
\* insertion order: a key already there keeps its place and takes the value
MapSet(m, t) ==
  IF \E i \in 1..Len(m) : m[i].CustomerTripId = t.CustomerTripId
  THEN [i \in 1..Len(m) |->
          IF m[i].CustomerTripId = t.CustomerTripId THEN t ELSE m[i]]
  ELSE Append(m, t)

\* the body of both forEach of mergeWithCache
MergeOne(m, t) ==
  IF ~t.isNull /\ Truthy(t.CustomerTripId) THEN MapSet(m, t) ELSE m

RECURSIVE ForEachMerge(_, _)
ForEachMerge(m, items) ==
  IF items = <<>> THEN m
  ELSE ForEachMerge(MergeOne(m, Head(items)), Tail(items))

\* mergeWithCache with a bug: the fresh records are inserted first, so a
\* cached record overrides the fresh one
mergeWithCache_CachedWins(fresh, cached) ==
  LET afterFresh == IF fresh.isArray THEN ForEachMerge(<<>>, fresh.items) ELSE <<>>
  IN IF cached.isArray THEN ForEachMerge(afterFresh, cached.items) ELSE afterFresh

\* mergeWithCache(freshTransactions, cachedTransactions)
mergeWithCache(fresh, cached) ==
  LET afterCached == IF cached.isArray THEN ForEachMerge(<<>>, cached.items) ELSE <<>>
  IN IF fresh.isArray THEN ForEachMerge(afterCached, fresh.items) ELSE afterCached

\* clearTransactionCache with a bug: an empty container is written in place
\* of removing the key
clearTransactionCache_WriteEmpty(store) ==
  [store |-> Encrypted(EmptyContainer),
   log |-> <<WriteEvent("setItem", "clearTransactionCache", 0)>>]

\* clearTransactionCache(): secureLocalStorage.removeItem(CACHE_KEY), which
\* is storage.removeItem(key) and involves no key and no cipher
clearTransactionCache(store) ==
  [store |-> Absent,
   log |-> <<WriteEvent("removeItem", "clearTransactionCache", 0)>>]

NoStats == [total |-> 0, recent |-> 0, old |-> 0, expired |-> 0]

\* the body of the forEach of getCacheStats
StatOne(stats, cache, id, clock) ==
  IF id \in DOMAIN cache.metadata /\ cache.metadata[id].expiresAt < clock
  THEN [stats EXCEPT !.expired = @ + 1]
  ELSE IF ~cache.transactions[id].isNull
            /\ isRecentTransaction(cache.transactions[id], clock)
  THEN [stats EXCEPT !.recent = @ + 1]
  ELSE [stats EXCEPT !.old = @ + 1]

RECURSIVE ForEachStat(_, _, _, _)
ForEachStat(stats, cache, keys, clock) ==
  IF keys = <<>> THEN stats
  ELSE ForEachStat(StatOne(stats, cache, Head(keys), clock), cache,
                   Tail(keys), clock)

\* getCacheStats(): the tally, the medium afterwards and the changes the load
\* made to it
getCacheStats(store, clock, okLoad) ==
  LET g == getCache(store, okLoad)
      keys == ObjectKeys(DOMAIN g.cache.transactions)
  IN [stats |-> ForEachStat([NoStats EXCEPT !.total = Len(keys)], g.cache,
                            keys, clock),
      store |-> g.store, log |-> g.log, cache |-> g.cache]

-----------------------------------------------------------------------------
(* secureStorage.js: one SecureStorage instance and one key of its medium *)

\* values a caller stores: null, a string, an object, and an object
\* JSON.stringify cannot serialise (a cycle)
JsNull == [type |-> "null", id |-> 0]
JsString == [type |-> "string", id |-> 1]
JsObject == [type |-> "object", id |-> 1]
JsCircular == [type |-> "object", id |-> 2]
Values == {JsNull, JsString, JsObject, JsCircular}

\* strings: the JSON text of a value, or the characters of JsString as they
\* are, which are not JSON
JsonText(v) == [syntax |-> "json", of |-> v]
RawText == [syntax |-> "raw", of |-> JsString]

\* JSON.stringify(value) throws on a cycle
JSONstringify(v) == [threw |-> v = JsCircular, text |-> JsonText(v)]
\* JSON.parse(text) throws on text that is not JSON
JSONparse(text) == [threw |-> text.syntax # "json", value |-> text.of]

\* what the medium holds under the key: nothing, a string without the ENC:
\* prefix, or ENC: followed by the base64 of IV and ciphertext; key is the
\* fingerprint the encryption key was derived from, intact is FALSE once a
\* byte was changed or cut off
NoItem == [kind |-> "absent", text |-> JsonText(JsNull), key |-> 0, intact |-> FALSE]
PlainItem(text) == [kind |-> "plain", text |-> text, key |-> 0, intact |-> FALSE]
Envelope(text, key) == [kind |-> "enc", text |-> text, key |-> key, intact |-> TRUE]

\* what code older than SecureStorage left under the key
LegacyItems ==
  {PlainItem(JsonText(v)) : v \in {JsNull, JsString, JsObject}}
    \cup {PlainItem(RawText)}

\* a legacy string that happens to begin with ENC: and was sealed by no
\* key
PrefixedLegacyItem ==
  [kind |-> "enc", text |-> RawText, key |-> 0, intact |-> FALSE]

Fingerprints == {1, 2}

NoKey == [state |-> "null", key |-> 0]

\* init with a bug: no memoisation, every call starts a derivation
init_AlwaysDerive(s) ==
  [s EXCEPT !.keyPromise = [state |-> "pending", key |-> s.fingerprint],
            !.derivations = @ + 1]

\* init(): the test of keyPromise and the assignment run without an await
\* in between; deriveKey is started when keyPromise is null
init(s) ==
  IF s.keyPromise.state = "null"
  THEN [s EXCEPT !.keyPromise = [state |-> "pending", key |-> s.fingerprint],
                 !.derivations = @ + 1]
  ELSE s

\* the promise of deriveKey settles: it rejects when crypto.subtle is missing
DeriveKeySettles(s) ==
  IF s.keyPromise.state = "pending"
  THEN [s EXCEPT !.keyPromise.state = IF s.subtle THEN "resolved" ELSE "rejected"]
  ELSE s

\* encrypt(data, key)
encrypt(data, key) ==
  LET j == JSONstringify(data)
  IN [threw |-> j.threw, envelope |-> Envelope(j.text, key)]

\* the try block of decrypt: atob throws on what is not base64,
\* crypto.subtle.decrypt on bytes the key does not authenticate (another
\* key, a changed or missing byte), JSON.parse on text that is not JSON
decryptTry(item, key) ==
  IF item.kind # "enc" \/ ~item.intact \/ item.key # key
  THEN [threw |-> TRUE, value |-> JsNull]
  ELSE JSONparse(item.text)

\* decryptSettled with a bug: no catch, what the try block throws rejects
\* the promise
decryptSettled_NoCatch(item, key) ==
  LET t == decryptTry(item, key)
  IN [rejected |-> t.threw, value |-> t.value]

\* how the promise of decrypt settles: the catch turns every exception of
\* the try block into null
decryptSettled(item, key) ==
  LET t == decryptTry(item, key)
  IN [rejected |-> FALSE, value |-> IF t.threw THEN JsNull ELSE t.value]

\* decrypt(encryptedString, key): null stands for every failure
decrypt(item, key) == decryptSettled(item, key).value

\* a string too long for line 64: String.fromCharCode(...combined) passes
\* one argument per byte, and the engine raises a RangeError beyond its
\* limit of arguments
JsLong == [type |-> "string", id |-> 2]
CodecValues == {JsNull, JsString, JsObject, JsLong, JsCircular}
SpreadThrows(text) == text.of = JsLong

\* what crypto.getRandomValues can fill the IV with
IVs == {1, 2}

\* encryptDraw with a bug: the IV is a constant of the module
encryptDraw_FixedIV(data, key, iv) ==
  LET e == encrypt(data, key)
  IN [threw |-> e.threw \/ SpreadThrows(e.envelope.text),
      envelope |-> [iv |-> 1] @@ e.envelope]

\* encrypt(data, key), iv being what getRandomValues drew in the call: the
\* envelope is ENC: and the base64 of the IV followed by the ciphertext
encryptDraw(data, key, iv) ==
  LET e == encrypt(data, key)
  IN [threw |-> e.threw \/ SpreadThrows(e.envelope.text),
      envelope |-> [iv |-> iv] @@ e.envelope]

\* an envelope after a byte was changed, or bytes were cut off its end
Damages == {"tampered", "truncated"}
Damage(item, how) == [item EXCEPT !.intact = FALSE]

\* what decrypt can be handed: an envelope as encrypt made it, a damaged
\* one, an envelope sealing text that is not JSON, a string without prefix
CodecItems ==
  LET sealed == {encryptDraw(v, k, iv).envelope :
                   v \in {JsNull, JsString, JsObject}, k \in Fingerprints,
                   iv \in IVs}
  IN [item : sealed, damage : {"none"}]
       \cup [item : {Damage(e, "tampered") : e \in sealed}, damage : Damages]
       \cup [item : {[iv |-> iv] @@ Envelope(RawText, k) :
                       k \in Fingerprints, iv \in IVs},
             damage : {"notJSON"}]
       \cup [item : {[iv |-> 0] @@ PlainItem(RawText)}, damage : {"notBase64"}]

NoCodec ==
  [op |-> "none", value |-> JsNull, key |-> 0, item |-> [iv |-> 0] @@ NoItem,
   damage |-> "none", threw |-> FALSE, rejected |-> FALSE, result |-> JsNull,
   draws |-> <<>>, sealed |-> <<>>]

StoreWrite(op, item) == [op |-> op, wrote |-> item]

\* the body of the try of setItem once init() has settled; okStore is
\* whether the medium accepts the string
SetItemTry(s, value, okStore) ==
  IF s.keyPromise.state = "rejected"
  THEN [s |-> s, ret |-> JsNull, answer |-> FALSE, threw |-> TRUE,
        writes |-> <<>>]
  ELSE LET e == encrypt(value, s.keyPromise.key)
       IN IF e.threw \/ ~okStore
          THEN [s |-> s, ret |-> JsNull, answer |-> FALSE, threw |-> TRUE,
                writes |-> <<>>]
          ELSE [s |-> [s EXCEPT !.medium = e.envelope], ret |-> JsNull,
                answer |-> TRUE,
                threw |-> FALSE,
                writes |-> <<StoreWrite("setItem", e.envelope)>>]

\* setItemAwaited with a bug: without a key the value is stored as it is
setItemAwaited_PlainFallback(s, value, okStore) ==
  LET t == SetItemTry(s, value, okStore)
      p == PlainItem(JsonText(value))
  IN IF s.keyPromise.state = "rejected" /\ okStore
     THEN [s |-> [s EXCEPT !.medium = p], ret |-> JsNull, answer |-> TRUE,
           threw |-> FALSE,
           writes |-> <<StoreWrite("setItem", p)>>]
     ELSE [t EXCEPT !.threw = FALSE]

\* setItemAwaited with a bug: no catch around the body
setItemAwaited_NoCatch(s, value, okStore) == SetItemTry(s, value, okStore)

\* setItem(key, value) from the point where init() has settled: the catch
\* turns every exception into the answer false
setItemAwaited(s, value, okStore) ==
  [SetItemTry(s, value, okStore) EXCEPT !.threw = FALSE]

\* setItem(key, value), run to its end
setItem(s, value, okStore) ==
  setItemAwaited(DeriveKeySettles(init(s)), value, okStore)

\* getItemAwaited with a bug: an envelope that does not decrypt is left in
\* place
getItemAwaited_KeepCorrupt(s, stored, okStore) ==
  IF stored.kind = "enc"
  THEN IF s.keyPromise.state = "rejected"
       THEN [s |-> s, ret |-> JsNull, answer |-> FALSE, threw |-> FALSE,
             writes |-> <<>>]
       ELSE [s |-> s, ret |-> decrypt(stored, s.keyPromise.key),
             answer |-> FALSE, threw |-> FALSE, writes |-> <<>>]
  ELSE LET j == JSONparse(stored.text)
           plainData == IF j.threw THEN stored.text.of ELSE j.value
           w == setItemAwaited(s, plainData, okStore)
       IN [s |-> w.s, ret |-> plainData, answer |-> FALSE, threw |-> w.threw,
           writes |-> w.writes]

\* getItemAwaited with a bug: without a key the entry is taken for
\* corrupted and removed
getItemAwaited_RemoveWithoutKey(s, stored, okStore) ==
  IF stored.kind = "enc" /\ s.keyPromise.state = "rejected"
  THEN [s |-> [s EXCEPT !.medium = NoItem], ret |-> JsNull,
        answer |-> FALSE, threw |-> FALSE,
        writes |-> <<StoreWrite("removeItem", NoItem)>>]
  ELSE getItemAwaited_KeepCorrupt(s, stored, okStore)

\* getItem(key) from the point where init() has settled, stored being the
\* string read at the start of the call
getItemAwaited(s, stored, okStore) ==
  IF stored.kind = "enc"
  THEN IF s.keyPromise.state = "rejected"
       THEN [s |-> s, ret |-> JsNull, answer |-> FALSE, threw |-> FALSE,
             writes |-> <<>>]
       ELSE LET decrypted == decrypt(stored, s.keyPromise.key)
            IN IF decrypted = JsNull
               THEN [s |-> [s EXCEPT !.medium = NoItem], ret |-> JsNull,
                     answer |-> FALSE, threw |-> FALSE,
                     writes |-> <<StoreWrite("removeItem", NoItem)>>]
               ELSE [s |-> s, ret |-> decrypted, answer |-> FALSE,
                     threw |-> FALSE, writes |-> <<>>]
  ELSE LET j == JSONparse(stored.text)
           plainData == IF j.threw THEN stored.text.of ELSE j.value
           w == setItemAwaited(s, plainData, okStore)
       IN [s |-> w.s, ret |-> plainData, answer |-> FALSE, threw |-> w.threw,
           writes |-> w.writes]

\* getItem(key), run to its end
getItem(s, okStore) ==
  IF s.medium.kind = "absent"
  THEN [s |-> s, ret |-> JsNull, answer |-> FALSE, threw |-> FALSE,
             writes |-> <<>>]
  ELSE getItemAwaited(DeriveKeySettles(init(s)), s.medium, okStore)

\* removeItem(key)
removeItem(s) ==
  [s |-> [s EXCEPT !.medium = NoItem], ret |-> JsNull, answer |-> FALSE,
   threw |-> FALSE, writes |-> <<StoreWrite("removeItem", NoItem)>>]

NoStoreCall ==
  [op |-> "none", arg |-> JsNull, okStore |-> FALSE, pre |-> NoItem,
   post |-> NoItem, ret |-> JsNull, answer |-> FALSE, threw |-> FALSE,
   writes |-> <<>>]

\* other is what a medium the instance does not wrap holds under the key
NoStore ==
  [medium |-> NoItem, other |-> NoItem, keyPromise |-> NoKey,
   derivations |-> 0, fingerprint |-> 1, subtle |-> TRUE, calls |-> <<>>,
   last |-> NoStoreCall, prev |-> NoStoreCall]

\* migrateToSecureStorage([key], storage, secureStorage) for one key; same
\* is whether storage is the medium that secureStorage wraps. A value that
\* is not JSON (an envelope is not) makes JSON.parse throw and is left
\* alone; after setItem, whatever it answered, storage.removeItem(key)
migrateToSecureStorage(s, same, okStore) ==
  LET value == IF same THEN s.medium ELSE s.other
      j == JSONparse(value.text)
      w == setItem(s, j.value, okStore)
  IN IF value.kind = "absent" \/ value.kind = "enc" \/ j.threw
     THEN [s |-> s, ret |-> JsNull, answer |-> FALSE, threw |-> FALSE,
           writes |-> <<>>]
     ELSE [s |-> IF same THEN [w.s EXCEPT !.medium = NoItem]
                 ELSE [w.s EXCEPT !.other = NoItem],
           ret |-> JsNull, answer |-> w.answer, threw |-> FALSE,
           writes |-> w.writes \o <<StoreWrite("removeItem", NoItem)>>]

-----------------------------------------------------------------------------
(* TransactionViewer.jsx and App.jsx: the fetch handler and the logout *)

\* a record of 4 days ago as the API supplies it
ApiOld == Tx(2, Undefined, T0 - 4 * MS_PER_DAY, -300)

\* what fetchTransactions resolves to: records of the API, none of them null
\* (its filter reads t.IsViolator of every element)
FreshLists == UNION {[1..n -> {ApiToday, ApiOld}] : n \in 0..MaxBatch}

\* a call of the cache that was started and not awaited: kind says which,
\* store is the string it read from the medium when it was called
GetTask(store, range) ==
  [kind |-> "getCachedTransactions", store |-> store, range |-> range,
   fresh |-> <<>>]
PutTask(store, fresh) ==
  [kind |-> "cacheTransactions", store |-> store, range |-> <<Day0, Day0>>,
   fresh |-> fresh]

\* the viewer of a user who has just logged in
NoViewer ==
  [loggedIn |-> TRUE, logout |-> "none", loading |-> FALSE, pc |-> "idle",
   cycles |-> 0, tz |-> 0, range |-> <<Day0, Day0>>, tasks |-> {},
   transactions |-> <<>>, shownCached |-> FALSE, fetched |-> FALSE,
   fresh |-> <<>>,
   clicked |-> [cache |-> EmptyContainer, clock |-> T0],
   fromCache |-> FALSE, error |-> "", rejections |-> 0, failures |-> {},
   answers |-> {TRUE}]

\* cached.length, cached being the promise getCachedTransactions returned
PromiseLength == Undefined

\* cached && cached.length > 0: a comparison with undefined is false
FromCache(length) == length # Undefined /\ length > 0

\* RenderedList with a bug: the cached list is rendered whatever was fetched
RenderedList_CachedOnly(freshData, fromCache, cached) == cached.items

\* finalData: the fresh list, or its merge with the cached one when
\* fromCache was set
RenderedList(freshData, fromCache, cached) ==
  IF fromCache THEN mergeWithCache(ArrayOf(freshData), cached) ELSE freshData

\* a call that was not awaited runs to its end on the string it read:
\* SecureStorage answers null or false where the cipher or the medium
\* fails, and getCache, saveCache and the try around each body catch what
\* is thrown, so the promise never rejects
Settle(task, clock, tz, okLoad, okSave) ==
  LET put == cacheTransactions(ArrayOf(task.fresh), task.store, clock,
                               okLoad, okSave)
      get == getCachedTransactions(task.range[1], task.range[2], task.store,
                                   clock, tz, okLoad, okSave)
      isPut == task.kind = "cacheTransactions"
      saves == IF isPut THEN ~put.threw ELSE get.hasExpired
  IN [store |-> IF isPut THEN put.store ELSE get.store,
      log |-> IF isPut THEN put.log ELSE get.log,
      saves |-> saves,
      rejected |-> FALSE,
      failures |->
        (IF task.store.kind = "corrupt" THEN {"decryption"} ELSE {})
          \cup (IF task.store.kind = "plain" /\ ~okLoad THEN {"write"} ELSE {})
          \cup (IF saves /\ ~okSave THEN {"write"} ELSE {})]

-----------------------------------------------------------------------------
(* validation.js: the login rate limiter *)

LOGIN_MAX_ATTEMPTS == 5
LOGIN_WINDOW_MS == 60000

\* Math.ceil(ms / 1000)
CeilSeconds(ms) == 0 - ((0 - ms) \div 1000)

\* rateLimitStore.get(key) || { attempts: 0, resetTime: now + windowMs }
RecordOf(map, key, clock, windowMs) ==
  IF key \in DOMAIN map THEN map[key]
  ELSE [attempts |-> 0, resetTime |-> clock + windowMs]

\* checkRateLimit(key, maxAttempts, windowMs) with Date.now() reading clock;
\* the record of a rejected call, reset or not, is not put back in the Map
checkRateLimit(map, key, maxAttempts, windowMs, clock) ==
  LET record == RecordOf(map, key, clock, windowMs)
      r == IF clock > record.resetTime
           THEN [attempts |-> 0, resetTime |-> clock + windowMs]
           ELSE record
  IN IF r.attempts >= maxAttempts
     THEN [map |-> map, allowed |-> FALSE,
           retryAfter |-> CeilSeconds(r.resetTime - clock)]
     ELSE [map |-> (key :> [r EXCEPT !.attempts = @ + 1]) @@ map,
           allowed |-> TRUE, retryAfter |-> Undefined]

\* clearRateLimit(key)
clearRateLimit(map, key) == [k \in DOMAIN map \ {key} |-> map[k]]

\* the waits between two submissions of the login form, in milliseconds
Waits == {1, 1000, 59000}

NoRejection == [some |-> FALSE, at |-> 0, retryAfter |-> 0]
NoCheck ==
  [op |-> "none", at |-> 0, allowed |-> FALSE, retryAfter |-> Undefined,
   after |-> NoRejection]

\* the Map is empty when the module is loaded
NoLimiter ==
  [map |-> <<>>, allowedAt |-> <<>>, rejection |-> NoRejection,
   last |-> NoCheck, waits |-> 0]

-----------------------------------------------------------------------------
(* workers/api-proxy.js *)

ALLOWED_ORIGINS ==
  {"http://localhost:5174", "http://localhost:5173",
   "https://ntta-toll-expenser.pages.dev"}

\* request.headers.get(name): null when the header is missing
NoHeader == [present |-> FALSE, text |-> "", origin |-> ""]
\* a header value; origin is what new URL(text).origin gives, "" when text
\* is not a URL
Header(text, origin) == [present |-> TRUE, text |-> text, origin |-> origin]

OriginHeaders ==
  {NoHeader, Header("", ""),
   Header("https://ntta-toll-expenser.pages.dev",
          "https://ntta-toll-expenser.pages.dev"),
   Header("https://other.example", "https://other.example")}

RefererHeaders ==
  {NoHeader, Header("", ""),
   Header("https://ntta-toll-expenser.pages.dev/transactions",
          "https://ntta-toll-expenser.pages.dev"),
   Header("https://other.example/page", "https://other.example"),
   Header("about:blank", "null"),
   Header("not a url", "")}

Requests ==
  [method : {"GET", "POST", "OPTIONS"}, path : {"/api/trips", "/health"},
   origin : OriginHeaders, referer : RefererHeaders]

\* truthiness of a header value: null and '' are falsy
Given(header) == header.present /\ header.text # ""

\* new URL(referer).origin; the constructor throws a TypeError on a string
\* that is not a URL
URLOrigin(header) == [threw |-> header.origin = "", origin |-> header.origin]

\* validateRequest(request)
validateRequest(request) ==
  IF Given(request.origin) /\ request.origin.text \notin ALLOWED_ORIGINS
  THEN [threw |-> FALSE, valid |-> FALSE]
  ELSE IF Given(request.referer) /\ URLOrigin(request.referer).threw
  THEN [threw |-> TRUE, valid |-> FALSE]
  ELSE IF Given(request.referer)
          /\ URLOrigin(request.referer).origin \notin ALLOWED_ORIGINS
  THEN [threw |-> FALSE, valid |-> FALSE]
  ELSE IF request.method = "POST"
          /\ (~Given(request.origin) \/ ~Given(request.referer))
  THEN [threw |-> FALSE, valid |-> FALSE]
  ELSE [threw |-> FALSE, valid |-> TRUE]

\* a response of the worker; status 0 stands for no response of its own:
\* the handler threw and the platform answers in its place
Response(status, forwarded) == [status |-> status, forwarded |-> forwarded]

\* handleOptions(request)
handleOptions(request) ==
  IF Given(request.origin) /\ request.origin.text \in ALLOWED_ORIGINS
  THEN Response(200, FALSE)
  ELSE Response(403, FALSE)

\* handleRequest(request, env): validateRequest is called outside the try;
\* upstream is the status NTTA answers with, 0 when the fetch fails
handleRequest(request, upstream) ==
  LET validation == validateRequest(request)
  IN IF validation.threw THEN Response(0, FALSE)
     ELSE IF ~validation.valid THEN Response(403, FALSE)
     ELSE IF upstream = 0 THEN Response(500, TRUE)
     ELSE Response(upstream, TRUE)

\* fetch(request, env, ctx)
fetch(request, upstream) ==
  IF request.method = "OPTIONS" THEN handleOptions(request)
  ELSE IF request.path \notin {"/api/trips"} THEN Response(404, FALSE)
  ELSE handleRequest(request, upstream)

\* what the NTTA origin answers
Upstreams == {0, 200, 401}

NoProxy ==
  [pc |-> "idle",
   request |-> [method |-> "GET", path |-> "/health", origin |-> NoHeader,
                referer |-> NoHeader],
   response |-> Response(0, FALSE)]

-----------------------------------------------------------------------------
(* App.jsx: the idle timer *)

IDLE_TIMEOUT_MS == 15 * 60 * 1000

\* idleTimerRef.current before the first setTimeout
NoTimer == 0

\* resetIdleTimer with a bug: the timer in idleTimerRef is not cleared
\* before the next one is set
resetIdleTimer_NoClear(st, clock) ==
  IF ~st.user THEN st
  ELSE [st EXCEPT !.timers = @ \cup {clock + IDLE_TIMEOUT_MS},
                  !.ref = clock + IDLE_TIMEOUT_MS]

\* resetIdleTimer(): a timer is named by the time it is due; setTimeout
\* never runs its callback before that time
resetIdleTimer(st, clock) ==
  IF ~st.user THEN st
  ELSE [st EXCEPT !.timers = (@ \ {st.ref}) \cup {clock + IDLE_TIMEOUT_MS},
                  !.ref = clock + IDLE_TIMEOUT_MS]

\* the cleanup of the effect, run when user changes
cleanupIdleTimer(st) == [st EXCEPT !.timers = @ \ {st.ref}]

\* handleLogout up to its first await: sessionStorage.clear()
handleLogoutStarts(st, cause) ==
  [st EXCEPT !.session = "empty",
             !.logout = "pending",
             !.cause = IF st.logout = "pending" THEN @ ELSE cause]

NoFiring == [some |-> FALSE, at |-> 0, lastActivity |-> 0]

\* nobody is logged in
NoIdle ==
  [user |-> FALSE, session |-> "empty", timers |-> {}, ref |-> NoTimer,
   loginAt |-> 0, lastActivity |-> 0, logout |-> "none", cause |-> "none",
   fired |-> NoFiring, logins |-> 0]

\* the time between two events the model visits
IdleStep == 5 * 60 * 1000


(* The state machine *)

\* what an earlier, unencrypted version of the cache left behind: TdOld,
\* cached a day before the start
\* ---- fetchTransactions (utils/api.js) ----

MaxPages == 3

PageSize == 50

\* records the server may send: IsViolator true, false or absent, and
\* TollAmount a number or a string of cents, or absent
RecordKinds ==
  << [IsViolator |-> "false", TollAmount |-> [type |-> "number", cents |-> -150]],
     [IsViolator |-> "true", TollAmount |-> [type |-> "number", cents |-> -150]],
     [IsViolator |-> "false", TollAmount |-> [type |-> "number", cents |-> 0]],
     [IsViolator |-> "undefined", TollAmount |-> [type |-> "string", cents |-> -275]],
     [IsViolator |-> "false", TollAmount |-> [type |-> "undefined", cents |-> 0]],
     [IsViolator |-> "false", TollAmount |-> [type |-> "string", cents |-> 0]],
     [IsViolator |-> "false", TollAmount |-> [type |-> "number", cents |-> 320]] >>

\* what the server answers to one request: response.data is an array, an
\* object with TransactionHistory, or an object without it
PageLengths == {0, PageSize - 1, PageSize, PageSize + 1}

Responses ==
  [shape : {"array", "wrapped"}, length : PageLengths, offset : {0, 3}]
    \cup {[shape |-> "object", length |-> 0, offset |-> 0]}

\* the records of the answer to the request of page number page
RecordsOf(response, page) ==
  [i \in 1..response.length |->
     LET kind == RecordKinds[((i + response.offset) % Len(RecordKinds)) + 1]
     IN [page |-> page, index |-> i, IsViolator |-> kind.IsViolator,
         TollAmount |-> kind.TollAmount]]

\* Array.isArray(response.data) ? response.data
\*   : (response.data?.TransactionHistory || [])
TransactionsOf(response, page) ==
  IF response.shape \in {"array", "wrapped"} THEN RecordsOf(response, page)
  ELSE <<>>

\* parseFloat(t.TollAmount || 0): an absent amount and the number 0 are
\* falsy; a string is truthy and is parsed
parseFloatOrZero(amount) ==
  IF amount.type = "undefined" THEN 0
  ELSE amount.cents

MathAbs(x) == IF x < 0 THEN -x ELSE x

\* (t) => !t.IsViolator && Math.abs(parseFloat(t.TollAmount || 0)) > 0
validTransaction(t) ==
  /\ t.IsViolator # "true"
  /\ MathAbs(parseFloatOrZero(t.TollAmount)) > 0

NoFetch ==
  [pc |-> "idle", pageNumber |-> 0, allTransactions |-> <<>>,
   requested |-> <<>>, responses |-> <<>>,
   promise |-> [state |-> "none", value |-> <<>>]]

\* the call up to its first await: page 1 is requested
fetchTransactionsStarts ==
  [NoFetch EXCEPT !.pc = "awaiting", !.pageNumber = 1, !.requested = <<1>>]

fetchTransactionsResumes_StopOnEmpty(f, response) ==
  LET transactions == TransactionsOf(response, f.pageNumber)
      all == f.allTransactions \o SelectSeq(transactions, validTransaction)
      g == [f EXCEPT !.allTransactions = all,
                     !.responses = Append(f.responses, response)]
  IN IF Len(transactions) = 0
     THEN [g EXCEPT !.pc = "returned",
                    !.promise = [state |-> "resolved", value |-> all]]
     ELSE [g EXCEPT !.pageNumber = f.pageNumber + 1,
                    !.requested = Append(f.requested, f.pageNumber + 1)]

\* the loop body once apiClient.post has resolved: the valid records are
\* pushed, then the loop ends or the next page is requested
fetchTransactionsResumes(f, response) ==
  LET transactions == TransactionsOf(response, f.pageNumber)
      all == f.allTransactions \o SelectSeq(transactions, validTransaction)
      g == [f EXCEPT !.allTransactions = all,
                     !.responses = Append(f.responses, response)]
  IN IF Len(transactions) < PageSize \/ Len(transactions) = 0
     THEN [g EXCEPT !.pc = "returned",
                    !.promise = [state |-> "resolved", value |-> all]]
     ELSE [g EXCEPT !.pageNumber = f.pageNumber + 1,
                    !.requested = Append(f.requested, f.pageNumber + 1)]

\* apiClient.post has rejected: the catch block throws, the promise of the
\* call rejects and allTransactions goes out of reach
fetchTransactionsFails(f) ==
  [f EXCEPT !.pc = "rejected", !.allTransactions = <<>>,
            !.promise = [state |-> "rejected", value |-> <<>>]]

LegacyContainer ==
  [transactions |-> (2 :> TdOld),
   metadata |-> (2 :> [cachedAt |-> T0 - MS_PER_DAY,
                       expiresAt |-> T0 - MS_PER_DAY + OLD_CACHE_DURATION_MS,
                       isRecent |-> FALSE])]

NoCall ==
  [op |-> "none", arg |-> NotAnArray, range |-> <<Day0, Day0>>, clock |-> T0,
   tz |-> 0, pre |-> "absent", loaded |-> EmptyContainer, okSave |-> FALSE,
   saved |-> FALSE, threw |-> FALSE,
   log |-> <<>>, cached |-> <<>>, answer |-> FALSE,
   stats |-> NoStats, cleared |-> "no"]

\* outside the specification at hand nothing has been called
InitOthers ==
  /\ codec = NoCodec
  /\ rateLimitStore = NoLimiter
  /\ idle = NoIdle
  /\ proxy = NoProxy
  /\ api = NoFetch

\* the transaction cache and its users, when the specification at hand is
\* about another part
cacheVars == <<storage, now, last, mergeArgs, merged, ss, ui>>

InitCache ==
  /\ storage = Absent
  /\ now = T0
  /\ last = NoCall
  /\ mergeArgs = <<NotAnArray, NotAnArray>>
  /\ merged = <<>>
  /\ ss = NoStore
  /\ ui = NoViewer

Init ==
  /\ InitOthers
  /\ storage \in {Absent, Plain(LegacyContainer)}
  /\ now = T0
  /\ last = NoCall
  /\ mergeArgs = <<NotAnArray, NotAnArray>>
  /\ merged = <<>>
  /\ ss = NoStore
  /\ ui = NoViewer

\* time passes
Tick ==
  /\ last.op = "none"
  /\ \E t \in ClockReadings : t > now /\ now' = t
  /\ UNCHANGED <<storage, last, mergeArgs, merged, ss, ui, others>>

\* the browser fingerprint changes (an update, another display): the key
\* derived from it no longer decrypts what is stored
FingerprintChanges ==
  /\ last.op = "none"
  /\ storage.kind = "enc"
  /\ storage' = Corrupt
  /\ UNCHANGED <<now, last, mergeArgs, merged, ss, ui, others>>

CacheTransactions ==
  \E arg \in Arguments, okLoad \in BOOLEAN, okSave \in BOOLEAN :
    LET r == cacheTransactions(arg, storage, now, okLoad, okSave)
    IN /\ last.op = "none"
       /\ okLoad \/ (storage.kind = "plain" /\ arg.isArray)
       /\ okSave \/ (arg.isArray /\ ~r.threw)
       /\ storage' = r.store
       /\ last' = [NoCall EXCEPT !.op = "cacheTransactions", !.arg = arg,
                     !.clock = now, !.pre = storage.kind,
                     !.loaded = getCache(storage, okLoad).cache,
                     !.okSave = okSave, !.saved = r.saved, !.threw = r.threw,
                     !.log = r.log]
       /\ UNCHANGED <<now, mergeArgs, merged, ss, ui, others>>

GetCachedTransactions ==
  \E range \in Ranges, offset \in TZOffsets, okLoad \in BOOLEAN,
     okSave \in BOOLEAN :
    LET r == getCachedTransactions(range[1], range[2], storage, now, offset,
                                   okLoad, okSave)
    IN /\ last.op = "none"
       /\ okLoad \/ storage.kind = "plain"
       /\ okSave \/ r.hasExpired
       /\ storage' = r.store
       /\ last' = [NoCall EXCEPT !.op = "getCachedTransactions",
                     !.range = range, !.tz = offset,
                     !.clock = now, !.pre = storage.kind,
                     !.loaded = getCache(storage, okLoad).cache,
                     !.okSave = okSave, !.saved = r.hasExpired /\ okSave,
                     !.log = r.log, !.cached = r.cached,
                     !.cleared = last.cleared]
       /\ UNCHANGED <<now, mergeArgs, merged, ss, ui, others>>

ShouldFetchTransactions ==
  \E range \in Ranges, offset \in TZOffsets, okLoad \in BOOLEAN,
     okSave \in BOOLEAN :
    LET r == getCachedTransactions(range[1], range[2], storage, now, offset,
                                   okLoad, okSave)
    IN /\ last.op = "none"
       /\ okLoad \/ storage.kind = "plain"
       /\ okSave \/ r.hasExpired
       /\ storage' = r.store
       /\ last' = [NoCall EXCEPT !.op = "shouldFetchTransactions",
                     !.range = range, !.tz = offset,
                     !.clock = now, !.pre = storage.kind,
                     !.loaded = getCache(storage, okLoad).cache,
                     !.okSave = okSave, !.saved = r.hasExpired /\ okSave,
                     !.log = r.log, !.cached = r.cached,
                     !.answer = shouldFetchTransactions(r.cached, now),
                     !.cleared = last.cleared]
       /\ UNCHANGED <<now, mergeArgs, merged, ss, ui, others>>

GetCacheStats ==
  \E okLoad \in BOOLEAN :
    LET r == getCacheStats(storage, now, okLoad)
    IN /\ last.op = "none"
       /\ okLoad \/ storage.kind = "plain"
       /\ storage' = r.store
       /\ last' = [NoCall EXCEPT !.op = "getCacheStats", !.clock = now,
                     !.pre = storage.kind, !.loaded = r.cache,
                     !.log = r.log, !.stats = r.stats,
                     !.cleared = last.cleared]
       /\ UNCHANGED <<now, mergeArgs, merged, ss, ui, others>>

ClearTransactionCache ==
  LET r == clearTransactionCache(storage)
  IN /\ last.op = "none"
     /\ storage' = r.store
     /\ last' = [NoCall EXCEPT !.op = "clearTransactionCache", !.clock = now,
                   !.pre = storage.kind, !.log = r.log,
                   !.cleared = IF DOMAIN storage.val.transactions # {}
                                THEN "entries" ELSE "nothing"]
     /\ UNCHANGED <<now, mergeArgs, merged, ss, ui, others>>

\* the caller has taken the outcome of the call; what follows a clear
\* remembers it until the next call
Return ==
  /\ last.op # "none"
  /\ last' = [NoCall EXCEPT
                !.cleared = IF last.op = "clearTransactionCache"
                            THEN last.cleared ELSE "no"]
  /\ UNCHANGED <<storage, now, mergeArgs, merged, ss, ui, others>>

Next ==
  \/ Tick
  \/ Return
  \/ FingerprintChanges
  \/ CacheTransactions
  \/ GetCachedTransactions
  \/ ShouldFetchTransactions
  \/ GetCacheStats
  \/ ClearTransactionCache

Spec == Init /\ [][Next]_vars

\* mergeWithCache on its own, a pure function: the two arguments are drawn
\* at the start and the call applies it to them
InitMerge ==
  /\ InitOthers
  /\ storage = Absent
  /\ now = T0
  /\ last = NoCall
  /\ mergeArgs \in Arguments \X Arguments
  /\ merged = <<>>
  /\ ss = NoStore
  /\ ui = NoViewer

MergeWithCache ==
  /\ last.op = "none"
  /\ last' = [NoCall EXCEPT !.op = "mergeWithCache"]
  /\ merged' = mergeWithCache(mergeArgs[1], mergeArgs[2])
  /\ UNCHANGED <<storage, now, mergeArgs, ss, ui, others>>

SpecMerge == InitMerge /\ [][MergeWithCache]_vars

\* SecureStorage on its own: calls on one key of one instance, each awaited
\* before the next is issued
InitStore ==
  /\ InitOthers
  /\ storage = Absent
  /\ now = T0
  /\ last = NoCall
  /\ mergeArgs = <<NotAnArray, NotAnArray>>
  /\ merged = <<>>
  /\ \E item \in {NoItem, PrefixedLegacyItem} \cup LegacyItems,
        subtle \in BOOLEAN :
       ss = [NoStore EXCEPT !.medium = item, !.subtle = subtle]
  /\ ui = NoViewer

\* the record of a completed call
StoreCall(op, arg, okStore, pre, r) ==
  [op |-> op, arg |-> arg, okStore |-> okStore, pre |-> pre,
   post |-> r.s.medium, ret |-> r.ret, answer |-> r.answer,
   threw |-> r.threw, writes |-> r.writes]

StoreSetItem ==
  \E value \in Values, okStore \in BOOLEAN :
    LET r == setItem(ss, value, okStore)
    IN /\ ss' = [r.s EXCEPT
                   !.last = StoreCall("setItem", value, okStore, ss.medium, r),
                   !.prev = ss.last]
       /\ UNCHANGED <<storage, now, last, mergeArgs, merged, ui, others>>

StoreGetItem ==
  \E okStore \in BOOLEAN :
    LET r == getItem(ss, okStore)
    IN /\ okStore \/ ss.medium.kind = "plain"
       /\ ss' = [r.s EXCEPT
                   !.last = StoreCall("getItem", JsNull, okStore, ss.medium, r),
                   !.prev = ss.last]
       /\ UNCHANGED <<storage, now, last, mergeArgs, merged, ui, others>>

StoreRemoveItem ==
  LET r == removeItem(ss)
  IN /\ ss.medium.kind # "absent"
     /\ ss' = [r.s EXCEPT
                 !.last = StoreCall("removeItem", JsNull, TRUE, ss.medium, r),
                 !.prev = ss.last]
     /\ UNCHANGED <<storage, now, last, mergeArgs, merged, ui, others>>

\* a byte of the stored envelope is changed, or its end is cut off
Tamper ==
  /\ ss.medium.kind = "enc"
  /\ ss.medium.intact
  /\ ss' = [ss EXCEPT !.medium.intact = FALSE]
  /\ UNCHANGED <<storage, now, last, mergeArgs, merged, ui, others>>

\* the page is loaded again: a new instance, and a fingerprint that may have
\* changed with the browser or the display
Reload ==
  \E fingerprint \in Fingerprints :
    /\ ss.last.op # "none"
    /\ ss' = [NoStore EXCEPT !.medium = ss.medium, !.other = ss.other,
                             !.subtle = ss.subtle,
                             !.fingerprint = fingerprint]
    /\ UNCHANGED <<storage, now, last, mergeArgs, merged, ui, others>>

NextStore ==
  \/ StoreSetItem
  \/ StoreGetItem
  \/ StoreRemoveItem
  \/ Tamper
  \/ Reload

SpecStore == InitStore /\ [][NextStore]_vars

\* SecureStorage under concurrent calls: a call runs up to its await of
\* init(), and goes on once the promise of deriveKey has settled
Callers == 1..MaxCallers

IdleCall ==
  [pc |-> "idle", op |-> "none", value |-> JsNull, stored |-> NoItem,
   early |-> FALSE, key |-> 0, ret |-> JsNull, answer |-> FALSE]

InitKey ==
  /\ InitOthers
  /\ storage = Absent
  /\ now = T0
  /\ last = NoCall
  /\ mergeArgs = <<NotAnArray, NotAnArray>>
  /\ merged = <<>>
  /\ \E item \in {NoItem, PlainItem(JsonText(JsObject)),
                  Envelope(JsonText(JsObject), 1)},
        subtle \in BOOLEAN :
       ss = [NoStore EXCEPT !.medium = item, !.subtle = subtle,
                            !.calls = [c \in Callers |-> IdleCall]]
  /\ ui = NoViewer

\* setItem(key, value) is called and runs to await this.init()
CallSetItem(c) ==
  \E value \in {JsString, JsObject} :
    /\ ss.calls[c].pc = "idle"
    /\ ss.derivations < MaxDerivations
    /\ ss' = [init(ss) EXCEPT
                !.calls[c] = [IdleCall EXCEPT
                                !.pc = "awaiting", !.op = "setItem",
                                !.value = value,
                                !.early = ss.keyPromise.state # "resolved"]]
    /\ UNCHANGED <<storage, now, last, mergeArgs, merged, ui, others>>

\* getItem(key) is called: it reads the medium, returns null at once when
\* the key is absent, and otherwise runs to await this.init()
CallGetItem(c) ==
  /\ ss.calls[c].pc = "idle"
  /\ ss.derivations < MaxDerivations
  /\ ss' = IF ss.medium.kind = "absent"
           THEN [ss EXCEPT !.calls[c] = [IdleCall EXCEPT !.pc = "done",
                                                         !.op = "getItem"]]
           ELSE [init(ss) EXCEPT
                   !.calls[c] = [IdleCall EXCEPT
                                   !.pc = "awaiting", !.op = "getItem",
                                   !.stored = ss.medium,
                                   !.early = ss.keyPromise.state # "resolved"]]
  /\ UNCHANGED <<storage, now, last, mergeArgs, merged, ui, others>>

DeriveKeyDone ==
  /\ ss.keyPromise.state = "pending"
  /\ ss' = DeriveKeySettles(ss)
  /\ UNCHANGED <<storage, now, last, mergeArgs, merged, ui, others>>

\* the await of init() is over: the call goes on with the key, or with the
\* rejection
CallResumes(c) ==
  LET call == ss.calls[c]
      r == IF call.op = "setItem"
           THEN setItemAwaited(ss, call.value, TRUE)
           ELSE getItemAwaited(ss, call.stored, TRUE)
  IN /\ call.pc = "awaiting"
     /\ ss.keyPromise.state \in {"resolved", "rejected"}
     /\ ss' = [r.s EXCEPT
                 !.calls[c] = [call EXCEPT
                                 !.pc = "done",
                                 !.key = IF ss.keyPromise.state = "resolved"
                                         THEN ss.keyPromise.key ELSE 0,
                                 !.ret = r.ret, !.answer = r.answer]]
     /\ UNCHANGED <<storage, now, last, mergeArgs, merged, ui, others>>

\* the browser or the display changes while the page stays loaded
FingerprintDrifts ==
  \E fingerprint \in Fingerprints :
    /\ fingerprint # ss.fingerprint
    /\ ss' = [ss EXCEPT !.fingerprint = fingerprint]
    /\ UNCHANGED <<storage, now, last, mergeArgs, merged, ui, others>>

NextKey ==
  \/ \E c \in Callers : CallSetItem(c)
  \/ \E c \in Callers : CallGetItem(c)
  \/ \E c \in Callers : CallResumes(c)
  \/ DeriveKeyDone
  \/ FingerprintDrifts

SpecKey == InitKey /\ [][NextKey]_vars

\* The viewer: clicks on Fetch Transactions and the ways to log out, with
\* the cache calls the handlers start and do not await
InitUI ==
  /\ InitOthers
  /\ storage = Absent
  /\ now = T0
  /\ last = NoCall
  /\ mergeArgs = <<NotAnArray, NotAnArray>>
  /\ merged = <<>>
  /\ ss = NoStore
  /\ \E offset \in TZOffsets : ui = [NoViewer EXCEPT !.tz = offset]

\* time passes
UITick ==
  /\ \E t \in ClockReadings : t > now /\ now' = t
  /\ UNCHANGED <<storage, last, mergeArgs, merged, ss, ui, others>>

\* handleFetchTransactions up to await fetchTransactions(...): cached is the
\* promise getCachedTransactions returns, whose length is undefined, so
\* nothing is shown and fromCache stays false
ClickFetch ==
  \E range \in Ranges :
    /\ ui.loggedIn /\ ~ui.loading
    /\ ui.cycles < MaxCycles
    /\ ui' = [ui EXCEPT
                !.loading = TRUE, !.pc = "fetching", !.range = range,
                !.cycles = @ + 1,
                !.tasks = @ \cup {GetTask(storage, range)},
                !.shownCached = FromCache(PromiseLength),
                !.fromCache = FromCache(PromiseLength),
                !.fetched = FALSE, !.fresh = <<>>, !.error = "",
                !.clicked = [cache |-> storage.val, clock |-> now]]
    /\ UNCHANGED <<storage, now, last, mergeArgs, merged, ss, others>>

\* fetchTransactions resolves: cacheTransactions(freshData) is started, and
\* with fromCache false the fresh list is what is rendered
FetchResolves ==
  \E freshData \in FreshLists :
    /\ ui.pc = "fetching"
    /\ \A i \in 1..Len(freshData) :
         /\ ui.range[1] * MS_PER_DAY <= freshData[i].Entry_TripDateTime
         /\ freshData[i].Entry_TripDateTime
              <= ui.range[2] * MS_PER_DAY + (MS_PER_DAY - 1)
    /\ ui' = [ui EXCEPT
                !.loading = FALSE, !.pc = "idle",
                !.tasks = @ \cup {PutTask(storage, freshData)},
                !.transactions = RenderedList(freshData, ui.fromCache,
                                              NotAnArray),
                !.fetched = TRUE,
                !.fresh = freshData]
    /\ UNCHANGED <<storage, now, last, mergeArgs, merged, ss, others>>

\* fetchTransactions rejects: the error is shown
FetchRejects ==
  /\ ui.pc = "fetching"
  /\ ui' = [ui EXCEPT !.loading = FALSE, !.pc = "idle",
                       !.error = "Failed to fetch transactions"]
  /\ UNCHANGED <<storage, now, last, mergeArgs, merged, ss, others>>

\* a call that was not awaited runs to its end, on what it read when it was
\* called
TaskSettles ==
  \E task \in ui.tasks, okLoad \in ui.answers, okSave \in ui.answers :
    LET r == Settle(task, now, ui.tz, okLoad, okSave)
    IN /\ okLoad \/ task.store.kind = "plain"
       /\ okSave \/ r.saves
       /\ storage' = IF r.log # <<>> THEN r.store ELSE storage
       /\ ui' = [ui EXCEPT !.tasks = @ \ {task},
                            !.failures = @ \cup r.failures,
                            !.rejections = @ + (IF r.rejected THEN 1 ELSE 0)]
       /\ UNCHANGED <<now, last, mergeArgs, merged, ss, others>>

\* the Logout button: clearTransactionCache() removes the key at once, and
\* onLogout() runs handleLogout up to its first await
ClickLogout ==
  /\ ui.loggedIn /\ ui.logout = "none"
  /\ storage' = clearTransactionCache(storage).store
  /\ ui' = [ui EXCEPT !.logout = "pending"]
  /\ UNCHANGED <<now, last, mergeArgs, merged, ss, others>>

\* the idle timer fires, or the periodic verification of the session fails:
\* handleLogout runs up to its first await
TimerLogout ==
  /\ ui.loggedIn /\ ui.logout = "none"
  /\ ui' = [ui EXCEPT !.logout = "pending"]
  /\ UNCHANGED <<storage, now, last, mergeArgs, merged, ss, others>>

\* handleLogout from await clearTransactionCache() to setUser(null)
LogoutCompletes ==
  /\ ui.logout = "pending"
  /\ storage' = clearTransactionCache(storage).store
  /\ ui' = [ui EXCEPT !.logout = "done", !.loggedIn = FALSE]
  /\ UNCHANGED <<now, last, mergeArgs, merged, ss, others>>

NextUI ==
  \/ UITick
  \/ ClickFetch
  \/ FetchResolves
  \/ FetchRejects
  \/ TaskSettles
  \/ ClickLogout
  \/ TimerLogout
  \/ LogoutCompletes

SpecUI == InitUI /\ [][NextUI]_vars

\* One fetch in the viewer over a medium that may hold anything and may
\* refuse any write
InitFetch ==
  /\ InitOthers
  /\ storage \in {Absent, Plain(LegacyContainer), Encrypted(LegacyContainer),
                   Corrupt}
  /\ now = T0
  /\ last = NoCall
  /\ mergeArgs = <<NotAnArray, NotAnArray>>
  /\ merged = <<>>
  /\ ss = NoStore
  /\ \E offset \in TZOffsets :
       ui = [NoViewer EXCEPT !.tz = offset, !.answers = BOOLEAN,
                             !.cycles = MaxCycles - 1]

NextFetch ==
  \/ UITick
  \/ ClickFetch
  \/ FetchResolves
  \/ FetchRejects
  \/ TaskSettles

SpecFetch == InitFetch /\ [][NextFetch]_vars

\* encrypt and decrypt on their own: values, keys and strings are drawn by
\* the calls
InitCodec ==
  /\ InitCache
  /\ codec = NoCodec
  /\ rateLimitStore = NoLimiter
  /\ idle = NoIdle
  /\ proxy = NoProxy
  /\ api = NoFetch

\* encrypt(v, k): the IV is drawn first, whatever happens afterwards
Encrypt ==
  \E v \in CodecValues, k \in Fingerprints, iv \in IVs :
    LET e == encryptDraw(v, k, iv)
    IN /\ Len(codec.draws) < MaxEncrypts
       /\ codec' = [NoCodec EXCEPT
                      !.op = "encrypt", !.value = v, !.key = k,
                      !.item = e.envelope, !.threw = e.threw,
                      !.draws = Append(codec.draws, iv),
                      !.sealed = Append(codec.sealed,
                                        [value |-> v, key |-> k,
                                         threw |-> e.threw,
                                         envelope |-> e.envelope])]
       /\ UNCHANGED <<cacheVars, rateLimitStore, idle, proxy, api>>

\* decrypt(s, k) of any string
Decrypt ==
  \E c \in CodecItems, k \in Fingerprints :
    LET d == decryptSettled(c.item, k)
    IN /\ codec' = [NoCodec EXCEPT
                      !.op = "decrypt", !.value = c.item.text.of, !.key = k,
                      !.item = c.item, !.damage = c.damage, !.threw = FALSE,
                      !.rejected = d.rejected, !.result = d.value]
       /\ UNCHANGED <<cacheVars, rateLimitStore, idle, proxy, api>>

\* decrypt(await encrypt(v, k), k)
RoundTrip ==
  \E v \in CodecValues, k \in Fingerprints, iv \in IVs :
    LET e == encryptDraw(v, k, iv)
        d == decryptSettled(e.envelope, k)
    IN /\ codec' = [NoCodec EXCEPT
                      !.op = "roundTrip", !.value = v, !.key = k,
                      !.item = e.envelope, !.damage = "none",
                      !.threw = e.threw,
                      !.rejected = ~e.threw /\ d.rejected,
                      !.result = IF e.threw THEN JsNull ELSE d.value]
       /\ UNCHANGED <<cacheVars, rateLimitStore, idle, proxy, api>>

NextCodec ==
  \/ Encrypt
  \/ Decrypt
  \/ RoundTrip

SpecCodec == InitCodec /\ [][NextCodec]_vars

\* the rate limiter of the login form
InitLimiter ==
  /\ InitCache
  /\ codec = NoCodec
  /\ rateLimitStore = NoLimiter
  /\ idle = NoIdle
  /\ proxy = NoProxy
  /\ api = NoFetch

\* handleSubmit up to the throw of line 1001: the attempt is counted before
\* the credentials are checked
CheckRateLimit ==
  LET r == checkRateLimit(rateLimitStore.map, "login", LOGIN_MAX_ATTEMPTS,
                          LOGIN_WINDOW_MS, now)
  IN /\ Len(rateLimitStore.allowedAt) < MaxChecks
     /\ rateLimitStore' =
          [rateLimitStore EXCEPT
             !.map = r.map,
             !.allowedAt = IF r.allowed THEN Append(@, now) ELSE @,
             !.rejection = IF r.allowed THEN @
                           ELSE [some |-> TRUE, at |-> now,
                                 retryAfter |-> r.retryAfter],
             !.last = [op |-> "checkRateLimit", at |-> now,
                       allowed |-> r.allowed, retryAfter |-> r.retryAfter,
                       after |-> rateLimitStore.rejection]]
     /\ UNCHANGED <<storage, last, mergeArgs, merged, ss, ui, now,
                    codec, idle, proxy, api>>

\* a login succeeded: clearRateLimit('login')
ClearRateLimit ==
  /\ rateLimitStore.last.op = "checkRateLimit"
  /\ rateLimitStore.last.allowed
  /\ rateLimitStore' =
       [NoLimiter EXCEPT !.map = clearRateLimit(rateLimitStore.map, "login"),
                         !.waits = rateLimitStore.waits,
                         !.last.op = "clearRateLimit"]
  /\ UNCHANGED <<storage, last, mergeArgs, merged, ss, ui, now,
                 codec, idle, proxy, api>>

\* the user waits before the next submission
Wait ==
  \E ms \in Waits :
    /\ rateLimitStore.waits < MaxWaits
    /\ now' = now + ms
    /\ rateLimitStore' = [rateLimitStore EXCEPT !.waits = @ + 1]
    /\ UNCHANGED <<storage, last, mergeArgs, merged, ss, ui,
                   codec, idle, proxy, api>>

NextLimiter ==
  \/ CheckRateLimit
  \/ ClearRateLimit
  \/ Wait

SpecLimiter == InitLimiter /\ [][NextLimiter]_vars

\* the API proxy worker, one request at a time
InitProxy ==
  /\ InitCache
  /\ codec = NoCodec
  /\ rateLimitStore = NoLimiter
  /\ idle = NoIdle
  /\ proxy = NoProxy
  /\ api = NoFetch

\* a request arrives
Receive ==
  \E request \in Requests :
    /\ proxy.pc \in {"idle", "responded"}
    /\ proxy' = [NoProxy EXCEPT !.pc = "received", !.request = request]
    /\ UNCHANGED <<cacheVars, codec, rateLimitStore, idle, api>>

\* the fetch handler answers it
Respond ==
  \E upstream \in Upstreams :
    /\ proxy.pc = "received"
    /\ proxy' = [proxy EXCEPT !.pc = "responded",
                              !.response = fetch(proxy.request, upstream)]
    /\ UNCHANGED <<cacheVars, codec, rateLimitStore, idle, api>>

NextProxy ==
  \/ Receive
  \/ Respond

SpecProxy == InitProxy /\ [][NextProxy]_vars

\* the idle timer of the application shell
InitIdle ==
  /\ storage \in {Absent, Encrypted(LegacyContainer)}
  /\ now = T0
  /\ last = NoCall
  /\ mergeArgs = <<NotAnArray, NotAnArray>>
  /\ merged = <<>>
  /\ ss = NoStore
  /\ ui = NoViewer
  /\ codec = NoCodec
  /\ rateLimitStore = NoLimiter
  /\ idle = NoIdle
  /\ proxy = NoProxy
  /\ api = NoFetch

IdleTick ==
  /\ now + IdleStep <= T0 + MaxIdleMinutes * 60 * 1000
  /\ now' = now + IdleStep
  /\ UNCHANGED <<storage, last, mergeArgs, merged, ss, ui, others>>

\* setUser(user) after a login or a restored session; the effect starts the
\* idle timer and registers resetIdleTimer for the five activity events
Login ==
  /\ ~idle.user /\ idle.logout = "none"
  /\ idle.logins < MaxLogins
  /\ idle' = resetIdleTimer([NoIdle EXCEPT !.user = TRUE,
                                           !.session = "credentials",
                                           !.loginAt = now,
                                           !.logins = idle.logins + 1],
                            now)
  /\ UNCHANGED <<cacheVars, codec, rateLimitStore, proxy, api>>

\* mousedown, keydown, scroll, touchstart or click: resetIdleTimer
Activity ==
  /\ idle.user
  /\ idle' = [resetIdleTimer(idle, now) EXCEPT !.lastActivity = now]
  /\ UNCHANGED <<cacheVars, codec, rateLimitStore, proxy, api>>

\* a timer is due: handleIdleTimeout, whose user is the one of the render
\* that set the timer
TimerFires ==
  \E due \in idle.timers :
    /\ now >= due
    /\ idle' = [handleLogoutStarts([idle EXCEPT !.timers = @ \ {due}], "idle")
                  EXCEPT !.fired = [some |-> TRUE, at |-> now,
                                    lastActivity |-> idle.lastActivity]]
    /\ UNCHANGED <<cacheVars, codec, rateLimitStore, proxy, api>>

\* the Logout button, or the periodic verification of the session fails
OtherLogout ==
  /\ idle.user /\ idle.logout = "none"
  /\ idle' = handleLogoutStarts(idle, "other")
  /\ UNCHANGED <<cacheVars, codec, rateLimitStore, proxy, api>>

\* handleLogout from its first await to setUser(null), and the cleanup of
\* the effects that follows
IdleLogoutCompletes ==
  /\ idle.logout = "pending"
  /\ storage' = clearTransactionCache(storage).store
  /\ idle' = [cleanupIdleTimer(idle) EXCEPT !.user = FALSE, !.logout = "none"]
  /\ UNCHANGED <<now, last, mergeArgs, merged, ss, ui,
                 codec, rateLimitStore, proxy, api>>

NextIdle ==
  \/ IdleTick
  \/ Login
  \/ Activity
  \/ TimerFires
  \/ OtherLogout
  \/ IdleLogoutCompletes

\* the event loop runs a timer that is due, and the awaits of handleLogout
\* settle
\* migrateToSecureStorage, then the calls of the instance
InitMigrate ==
  /\ InitOthers
  /\ storage = Absent
  /\ now = T0
  /\ last = NoCall
  /\ mergeArgs = <<NotAnArray, NotAnArray>>
  /\ merged = <<>>
  /\ \E item \in LegacyItems, same \in BOOLEAN, subtle \in BOOLEAN :
       ss = [NoStore EXCEPT !.medium = IF same THEN item ELSE NoItem,
                            !.other = IF same THEN NoItem ELSE item,
                            !.subtle = subtle]
  /\ ui = NoViewer

Migrate ==
  \E same \in BOOLEAN, okStore \in BOOLEAN :
    LET value == IF same THEN ss.medium ELSE ss.other
        r == migrateToSecureStorage(ss, same, okStore)
    IN /\ value.kind = "plain"
       /\ ss' = [r.s EXCEPT
                   !.last = StoreCall(IF same THEN "migrate the wrapped medium"
                                      ELSE "migrate another medium",
                                      value.text.of, okStore, value, r),
                   !.prev = ss.last]
       /\ UNCHANGED <<storage, now, last, mergeArgs, merged, ui, others>>

NextMigrate ==
  \/ Migrate
  \/ StoreSetItem
  \/ StoreGetItem
  \/ StoreRemoveItem
  \/ Tamper
  \/ Reload

SpecMigrate == InitMigrate /\ [][NextMigrate]_vars

\* one fetchTransactions call at a time; the server answers every request
\* and sends a short page at page MaxPages at the latest
InitPages ==
  /\ InitCache
  /\ codec = NoCodec
  /\ rateLimitStore = NoLimiter
  /\ idle = NoIdle
  /\ proxy = NoProxy
  /\ api = NoFetch

FetchCall ==
  /\ api.pc \in {"idle", "returned", "rejected"}
  /\ api' = fetchTransactionsStarts
  /\ UNCHANGED <<cacheVars, codec, rateLimitStore, idle, proxy>>

PageArrives ==
  \E response \in Responses :
    /\ api.pc = "awaiting"
    /\ api.pageNumber < MaxPages \/ response.length < PageSize
    /\ api' = fetchTransactionsResumes(api, response)
    /\ UNCHANGED <<cacheVars, codec, rateLimitStore, idle, proxy>>

PageFails ==
  /\ api.pc = "awaiting"
  /\ api' = fetchTransactionsFails(api)
  /\ UNCHANGED <<cacheVars, codec, rateLimitStore, idle, proxy>>

NextPages ==
  \/ FetchCall
  \/ PageArrives
  \/ PageFails

SpecPages ==
  /\ InitPages
  /\ [][NextPages]_vars
  /\ WF_vars(PageArrives \/ PageFails)

\* cacheTransactions of one record, the clock running during the call
InitRecency ==
  /\ InitOthers
  /\ InitCache

RecencyTick ==
  /\ last.op = "none"
  /\ \E t \in EdgeReadings : t > now /\ now' = t
  /\ UNCHANGED <<storage, last, mergeArgs, merged, ss, ui, others>>

CacheWhileClockRuns ==
  \E t \in {TdToday, ApiToday, TdOld, TdEdge}, d1 \in Drifts, d2 \in Drifts :
    LET r == cacheTransactionsAt(ArrayOf(<<t>>), storage, now, now + d1,
                                 now + d2, TRUE, TRUE)
    IN /\ last.op = "none"
       /\ d1 <= d2
       /\ storage' = r.store
       /\ last' = [NoCall EXCEPT !.op = "cacheTransactions",
                     !.arg = ArrayOf(<<t>>), !.clock = now,
                     !.pre = storage.kind, !.loaded = storage.val,
                     !.okSave = TRUE, !.saved = r.saved, !.log = r.log]
       /\ UNCHANGED <<now, mergeArgs, merged, ss, ui, others>>

NextRecency ==
  \/ RecencyTick
  \/ CacheWhileClockRuns
  \/ Return

SpecRecency == InitRecency /\ [][NextRecency]_vars

SpecIdle ==
  /\ InitIdle
  /\ [][NextIdle]_vars
  /\ WF_vars(TimerFires)
  /\ WF_vars(IdleLogoutCompletes)

-----------------------------------------------------------------------------
(* Notions the properties are stated in *)

\* the record is shaped as the remote API supplies it
ApiShaped(t) == ~t.isNull /\ t.Entry_TripDateTime # Undefined

\* the trip timestamp of a record: Entry_TripDateTime when the record has
\* one, TripDate otherwise; NaN when it is missing or unparseable
TripStamp(t) ==
  IF t.Entry_TripDateTime # Undefined
  THEN NewDate(t.Entry_TripDateTime)
  ELSE NewDate(t.TripDate)

\* the trip timestamp lies in the local calendar days startDate..endDate
InRequestedDays(t, range) ==
  /\ TripStamp(t) # NaN
  /\ range[1] * MS_PER_DAY <= TripStamp(t)
  /\ TripStamp(t) <= range[2] * MS_PER_DAY + (MS_PER_DAY - 1)

InList(t, list) == \E i \in 1..Len(list) : list[i] = t

\* the identifiers carried by the records of a list
CarriedIds(items) ==
  {items[i].CustomerTripId :
     i \in {j \in 1..Len(items) :
              ~items[j].isNull /\ Truthy(items[j].CustomerTripId)}}

\* the last record of a list that carries the identifier
LastWithId(items, id) ==
  LET at == {i \in 1..Len(items) :
               ~items[i].isNull /\ items[i].CustomerTripId = id}
  IN items[CHOOSE i \in at : \A j \in at : j <= i]

IsGet == last.op \in {"getCachedTransactions", "shouldFetchTransactions"}
IsCache == last.op = "cacheTransactions"

-----------------------------------------------------------------------------
(* C1..C10 *)

\* C1: a cached record shaped as the API supplies it is returned by a later
\* getCachedTransactions exactly when its trip date lies in the requested
\* days, as long as its expiresAt has not passed.
C1_CachedRecordReturned ==
  IsGet =>
    \A id \in DOMAIN last.loaded.transactions :
      LET t == last.loaded.transactions[id]
          m == last.loaded.metadata[id]
      IN (ApiShaped(t) /\ m.expiresAt >= last.clock)
           => (InRequestedDays(t, last.range) <=> InList(t, last.cached))

C3_RecencySetsExpiry ==
  (IsCache /\ last.saved) =>
    \A id \in CarriedIds(last.arg.items) :
      LET t == storage.val.transactions[id]
          m == storage.val.metadata[id]
          recent == last.clock - TripStamp(t)
                      < RECENT_TRANSACTION_THRESHOLD_DAYS * MS_PER_DAY
      IN TripStamp(t) # NaN =>
           /\ m.isRecent <=> recent
           /\ m.expiresAt = m.cachedAt + (IF recent THEN RECENT_CACHE_DURATION_MS
                                                    ELSE OLD_CACHE_DURATION_MS)

\* C4: an entry whose record has a missing or unparseable trip timestamp is
\* written as recent, with the 1-hour expiry.
C4_UnparseableIsRecent ==
  (IsCache /\ last.saved) =>
    \A id \in CarriedIds(last.arg.items) :
      LET t == storage.val.transactions[id]
          m == storage.val.metadata[id]
      IN TripStamp(t) = NaN =>
           /\ m.isRecent
           /\ m.expiresAt = m.cachedAt + RECENT_CACHE_DURATION_MS

\* C5: after cacheTransactions with a successful write, every identifier
\* carried by the list holds the last record of the list with that
\* identifier and metadata of this call; every other identifier holds what
\* was loaded.
C5_LastWriteWins ==
  (IsCache /\ last.saved) =>
    /\ storage.kind = "enc"
    /\ DOMAIN storage.val.transactions
         = DOMAIN last.loaded.transactions \cup CarriedIds(last.arg.items)
    /\ DOMAIN storage.val.metadata = DOMAIN storage.val.transactions
    /\ \A id \in DOMAIN storage.val.transactions :
         IF id \in CarriedIds(last.arg.items)
         THEN /\ storage.val.transactions[id] = LastWithId(last.arg.items, id)
              /\ storage.val.metadata[id].cachedAt = last.clock
              /\ storage.val.metadata[id].expiresAt > last.clock
         ELSE /\ storage.val.transactions[id] = last.loaded.transactions[id]
              /\ storage.val.metadata[id] = last.loaded.metadata[id]

\* a list with two records of one identifier was written over an entry cached
\* earlier for that identifier, next to an entry of another identifier
C5_Witness ==
  /\ IsCache /\ last.saved
  /\ Len(last.arg.items) = 2
  /\ last.arg.items[1].CustomerTripId = last.arg.items[2].CustomerTripId
  /\ last.arg.items[1] # last.arg.items[2]
  /\ \E id \in CarriedIds(last.arg.items) :
       /\ id \in DOMAIN last.loaded.transactions
       /\ last.loaded.metadata[id].cachedAt < last.clock
       /\ last.loaded.transactions[id] # storage.val.transactions[id]
  /\ \E id \in DOMAIN last.loaded.transactions :
       id \notin CarriedIds(last.arg.items)

\* C6: with the medium accepting the write, every record of the list that
\* carries an identifier is cached and persisted, whatever malformed records
\* the list holds besides.
C6_MalformedNeverAborts ==
  (IsCache /\ last.arg.isArray /\ last.okSave) =>
    \A id \in CarriedIds(last.arg.items) :
      /\ storage.kind = "enc"
      /\ id \in DOMAIN storage.val.transactions
      /\ storage.val.transactions[id] = LastWithId(last.arg.items, id)
      /\ storage.val.metadata[id].cachedAt = last.clock

SavesOf(log) == SelectSeq(log, LAMBDA e : e.by = "saveCache")
LoadsOf(log) == SelectSeq(log, LAMBDA e : e.by = "getItem")

C8_MergeOnePerId ==
  LET fresh == mergeArgs[1].items
      cached == mergeArgs[2].items
      ids == CarriedIds(fresh) \cup CarriedIds(cached)
  IN last.op = "mergeWithCache" =>
     /\ \A id \in ids :
          Cardinality({i \in 1..Len(merged) : merged[i].CustomerTripId = id}) = 1
     /\ \A i \in 1..Len(merged) :
          /\ ~merged[i].isNull
          /\ merged[i].CustomerTripId \in ids
          /\ merged[i] =
               IF merged[i].CustomerTripId \in CarriedIds(fresh)
               THEN LastWithId(fresh, merged[i].CustomerTripId)
               ELSE LastWithId(cached, merged[i].CustomerTripId)

\* one identifier is in both lists with different amounts, another list
\* element has no identifier, and the merge holds the fresh record alone
C8_Witness ==
  /\ last.op = "mergeWithCache"
  /\ mergeArgs[1] = ArrayOf(<<ApiToday, NoIdTx>>)
  /\ mergeArgs[2] = ArrayOf(<<TdToday, NullTx>>)
  /\ merged = <<ApiToday>>

\* the trip timestamp is less than 3 days before the clock reading
RecentAt(t, clock) ==
  TripStamp(t) # NaN
    /\ clock - TripStamp(t) < RECENT_TRANSACTION_THRESHOLD_DAYS * MS_PER_DAY

\* C9: shouldFetchTransactions answers true when no record is yielded, true
\* when a yielded record is recent, and false only when records are yielded
\* and all of them are old.
C9_ShouldFetch ==
  last.op = "shouldFetchTransactions" =>
    /\ Len(last.cached) = 0 => last.answer
    /\ (\E i \in 1..Len(last.cached) : RecentAt(last.cached[i], last.clock))
         => last.answer
    /\ ~last.answer =>
         /\ Len(last.cached) > 0
         /\ \A i \in 1..Len(last.cached) : ~RecentAt(last.cached[i], last.clock)

\* the answer was false with records yielded
C9_Witness ==
  /\ last.op = "shouldFetchTransactions"
  /\ Len(last.cached) > 0
  /\ ~last.answer

\* C10: an unexpired record shaped as the API supplies it and dated exactly
\* at startDate 00:00:00 is returned.
C10_StartOfDayIncluded ==
  IsGet =>
    \A id \in DOMAIN last.loaded.transactions :
      LET t == last.loaded.transactions[id]
          m == last.loaded.metadata[id]
      IN (ApiShaped(t) /\ m.expiresAt >= last.clock
            /\ TripStamp(t) = last.range[1] * MS_PER_DAY)
           => InList(t, last.cached)

-----------------------------------------------------------------------------
(* C11..C20 *)

\* C18: after clearTransactionCache has returned the cache key is absent
\* from storage and the call has not thrown; a getCachedTransactions that
\* follows it with no other cache operation in between returns an empty list
\* for every range, and a getCacheStats that follows it reports total 0.
C18_ClearRemovesContainer ==
  /\ last.op = "clearTransactionCache" => (storage = Absent /\ ~last.threw)
  /\ (IsGet /\ last.cleared # "no") => last.cached = <<>>
  /\ (last.op = "getCacheStats" /\ last.cleared # "no")
       => (last.stats.total = 0 /\ storage = Absent)

\* a container with entries was cleared, and the getCachedTransactions that
\* followed, over the widest range, found the key absent
C18_Witness ==
  /\ last.op = "getCachedTransactions"
  /\ last.cleared = "entries"
  /\ last.range = <<Day0 - 4, Day0>>
  /\ last.pre = "absent"
  /\ storage = Absent

\* an entry counts as recent when its trip timestamp is less than 3 days
\* before the clock reading
StatsExpected(cache, clock) ==
  LET ids == DOMAIN cache.transactions
      expired == {id \in ids : cache.metadata[id].expiresAt < clock}
      recent == {id \in ids \ expired :
                   TripStamp(cache.transactions[id]) # NaN
                     /\ clock - TripStamp(cache.transactions[id])
                          < RECENT_TRANSACTION_THRESHOLD_DAYS * MS_PER_DAY}
  IN [total |-> Cardinality(ids), recent |-> Cardinality(recent),
      old |-> Cardinality(ids \ (expired \cup recent)),
      expired |-> Cardinality(expired)]

\* C19: getCacheStats changes nothing under the cache key, and reports
\* total = number of entries, expired = entries whose expiresAt is before
\* now, and recent / old = the remaining entries split by whether the trip
\* timestamp is less than 3 days old.
C19_StatsReadOnlyTally ==
  last.op = "getCacheStats" =>
    /\ last.log = <<>>
    /\ last.stats = StatsExpected(last.loaded, last.clock)

\* C11, with crypto.subtle present and the medium accepting the write: when
\* the key holds a legacy plaintext JSON value, a first getItem returns the
\* parsed value and leaves an ENC: envelope under the key, and a second
\* getItem on what the first left returns the same value and writes nothing.
C11_MigrationIdempotent ==
  (/\ ss.last.op = "getItem" /\ ss.prev.op = "getItem"
   /\ ss.prev.pre.kind = "plain" /\ ss.prev.pre.text.syntax = "json"
   /\ ss.subtle /\ ss.prev.okStore
   /\ ss.last.pre = ss.prev.post)
    => /\ ss.prev.ret = ss.prev.pre.text.of
       /\ ss.prev.post.kind = "enc"
       /\ ss.last.ret = ss.prev.ret
       /\ ss.last.writes = <<>>

\* the envelope the call found cannot be decrypted with the key of the
\* instance: it was tampered with or truncated, or it was encrypted under a
\* key derived from another fingerprint
Undecryptable(call) ==
  /\ call.pre.kind = "enc"
  /\ ss.keyPromise.state = "resolved"
  /\ ~call.pre.intact \/ call.pre.key # ss.keyPromise.key

\* C12: a getItem that finds an ENC: value its key cannot decrypt removes
\* the key from the medium and returns null, without throwing; the key is
\* absent when the call returns.
C12_CorruptRemoved ==
  (ss.last.op = "getItem" /\ Undecryptable(ss.last)) =>
    /\ ss.last.ret = JsNull
    /\ ~ss.last.threw
    /\ ss.last.post = NoItem
    /\ ss.last.writes = <<StoreWrite("removeItem", NoItem)>>

\* an intact envelope written under another fingerprint was found and
\* removed
C12_Witness ==
  /\ ss.last.op = "getItem"
  /\ Undecryptable(ss.last)
  /\ ss.last.pre.intact
  /\ ss.last.pre.text = JsonText(JsObject)
  /\ ss.last.post = NoItem

\* C13: every string a SecureStorage call writes to the medium is an ENC:
\* envelope; no call turns an envelope under the key into plaintext; and
\* without crypto.subtle setItem writes nothing and answers false.
C13_OnlyEnvelopesWritten ==
  ss.last.op # "none" =>
    /\ \A i \in 1..Len(ss.last.writes) :
         ss.last.writes[i].op = "setItem"
           => ss.last.writes[i].wrote.kind = "enc"
    /\ ss.last.post.kind = "plain" => ss.last.post = ss.last.pre
    /\ (ss.last.op = "setItem" /\ ~ss.subtle) =>
         /\ ss.last.writes = <<>>
         /\ ss.last.post = ss.last.pre
         /\ ~ss.last.answer

\* without crypto.subtle a setItem of an object over a legacy plaintext value
\* was refused, the medium being ready to accept a write
C13_Witness ==
  /\ ss.last.op = "setItem"
  /\ ~ss.subtle
  /\ ss.last.okStore
  /\ ss.last.arg = JsObject
  /\ ss.last.pre.kind = "plain"
  /\ ss.last.post = ss.last.pre

\* C14: setItem never throws; it answers false, leaving what was stored
\* under the key as it was, exactly when the key derivation, the encryption
\* or the medium fails, and answers true only with the envelope of the value
\* written under the key.
C14_SetItemNeverThrows ==
  ss.last.op = "setItem" =>
    /\ ~ss.last.threw
    /\ ss.last.answer <=>
         (ss.subtle /\ ss.last.arg # JsCircular /\ ss.last.okStore)
    /\ ss.last.answer =>
         /\ ss.last.post.kind = "enc"
         /\ ss.last.post.intact
         /\ ss.last.post.text = JsonText(ss.last.arg)
         /\ ss.last.post.key = ss.keyPromise.key
         /\ ss.last.writes = <<StoreWrite("setItem", ss.last.post)>>
    /\ ~ss.last.answer =>
         /\ ss.last.post = ss.last.pre
         /\ ss.last.writes = <<>>

\* the medium refused the write of a setItem over an envelope, which stayed
C14_Witness ==
  /\ ss.last.op = "setItem"
  /\ ss.subtle /\ ~ss.last.okStore
  /\ ss.last.arg = JsString
  /\ ss.last.pre.kind = "enc"
  /\ ss.last.pre.text = JsonText(JsObject)
  /\ ~ss.last.answer
  /\ ss.last.post = ss.last.pre

\* C15: one instance starts at most one key derivation, however many
\* setItem / getItem calls are issued before the key exists; every call that
\* awaits a key awaits that derivation, and every call that has gone on with
\* a key has used the key of that derivation.
C15_OneDerivation ==
  /\ ss.derivations <= 1
  /\ \A c \in DOMAIN ss.calls :
       /\ ss.calls[c].pc = "awaiting" => ss.keyPromise.state # "null"
       /\ (ss.calls[c].pc = "done" /\ ss.calls[c].key # 0)
            => ss.calls[c].key = ss.keyPromise.key
  /\ \A c, d \in DOMAIN ss.calls :
       (ss.calls[c].key # 0 /\ ss.calls[d].key # 0)
         => ss.calls[c].key = ss.calls[d].key

\* two calls were issued before the key existed, the fingerprint changed
\* between them, and both went on with the key of the one derivation
C15_Witness ==
  /\ ss.derivations = 1
  /\ ss.fingerprint # ss.keyPromise.key
  /\ \A c \in DOMAIN ss.calls :
       /\ ss.calls[c].pc = "done"
       /\ ss.calls[c].early
       /\ ss.calls[c].key = ss.keyPromise.key
  /\ \E c, d \in DOMAIN ss.calls :
       ss.calls[c].op = "setItem" /\ ss.calls[d].op = "getItem"
  /\ DOMAIN ss.calls # {}

\* C16: once the cache calls of a fetch cycle have settled, with no logout,
\* every freshly fetched record that carries an identifier is in the
\* persisted container.
C16_NoLostUpdate ==
  (ui.fetched /\ ui.tasks = {} /\ ui.logout = "none") =>
    \A id \in CarriedIds(ui.fresh) :
      /\ storage.kind = "enc"
      /\ id \in DOMAIN storage.val.transactions

\* C17: after a logout has completed and every cache call started by the
\* viewer has settled, nothing is stored under the transaction-cache key.
C17_LogoutDestroysCache ==
  (ui.logout = "done" /\ ui.pc = "idle" /\ ui.tasks = {}) => storage = Absent

\* the identifiers the cache held at the click whose entry had not expired
\* and whose trip timestamp lies in the requested days
CachedInRange ==
  {id \in DOMAIN ui.clicked.cache.transactions :
     /\ ui.clicked.cache.metadata[id].expiresAt >= ui.clicked.clock
     /\ InRequestedDays(ui.clicked.cache.transactions[id], ui.range)}

\* C20: when the cache held unexpired records in the requested range, the
\* fetch showed them first, and the list rendered at its end holds every
\* fresh record and every such cached record whose identifier is not among
\* the fresh ones.
C20_MergedListRendered ==
  ui.fetched =>
    /\ CachedInRange # {} => ui.shownCached
    /\ \A i \in 1..Len(ui.fresh) : InList(ui.fresh[i], ui.transactions)
    /\ \A id \in CachedInRange \ CarriedIds(ui.fresh) :
         InList(ui.clicked.cache.transactions[id], ui.transactions)

-----------------------------------------------------------------------------
(* C21..C30 *)

C22_MetadataFixedAtInsertion ==
  /\ [][\A id \in DOMAIN storage.val.metadata \cap DOMAIN storage'.val.metadata :
          storage'.val.metadata[id] # storage.val.metadata[id]
            => /\ last'.op = "cacheTransactions"
               /\ id \in CarriedIds(last'.arg.items)]_vars
  /\ [](\A id \in DOMAIN storage.val.metadata :
          storage.val.metadata[id].isRecent
            => storage.val.metadata[id].expiresAt
                 = storage.val.metadata[id].cachedAt + RECENT_CACHE_DURATION_MS)

\* a record cached as recent at T0 is still stored eight days later, its
\* trip date more than 3 days old, with the metadata it was given
C22_Witness ==
  /\ storage.kind = "enc"
  /\ 1 \in DOMAIN storage.val.metadata
  /\ storage.val.transactions[1] = TdToday
  /\ storage.val.metadata[1] =
       [cachedAt |-> T0, expiresAt |-> T0 + RECENT_CACHE_DURATION_MS,
        isRecent |-> TRUE]
  /\ ~isRecentTransaction(TdToday, now)
  /\ last.op = "getCacheStats"

\* an entry of the container the call loaded had expired at the call's clock
ExpiredAtCall ==
  \E id \in DOMAIN last.loaded.metadata :
    last.loaded.metadata[id].expiresAt < last.clock

\* C29 as stated: a getCachedTransactions call that found no expired entry
\* leaves what is stored under the key as it was, and one that found some
\* changes it exactly once (the medium accepting the write).
C29_WritesOnlyWhenExpired ==
  last.op = "getCachedTransactions" =>
    /\ ~ExpiredAtCall => last.log = <<>>
    /\ (ExpiredAtCall /\ last.okSave)
         => last.log = <<WriteEvent("setItem", "saveCache", 0)>>

\* C29 as amended: saveCache writes only when an entry expired during the
\* call, then once and as the last change of the call; any other change of
\* the key is the one made by the load (re-encryption of legacy plaintext,
\* removal of an undecryptable envelope), and a call on an absent key or on
\* an envelope that decrypts, with nothing expired, changes nothing.
C29_SavesOnlyWhenExpired ==
  last.op = "getCachedTransactions" =>
    /\ last.log = LoadsOf(last.log) \o SavesOf(last.log)
    /\ ~ExpiredAtCall => SavesOf(last.log) = <<>>
    /\ ExpiredAtCall =>
         SavesOf(last.log) = IF last.okSave
                             THEN <<WriteEvent("setItem", "saveCache", 0)>>
                             ELSE <<>>
    /\ Len(LoadsOf(last.log)) <= 1
    /\ LoadsOf(last.log) # <<>> => last.pre \in {"plain", "corrupt"}
    /\ (last.pre \in {"absent", "enc"} /\ ~ExpiredAtCall) => last.log = <<>>

\* a call on an envelope holding an expired entry saved the pruned
\* container, by one write
C29_Witness ==
  /\ last.op = "getCachedTransactions"
  /\ last.pre = "enc"
  /\ ExpiredAtCall
  /\ last.saved
  /\ last.log = <<WriteEvent("setItem", "saveCache", 0)>>
  /\ DOMAIN storage.val.transactions # DOMAIN last.loaded.transactions

\* C23 as stated: decrypt(encrypt(v, k), k) gives v back, for each value
\* that JSON can carry (everything drawn but the object with a cycle).
C23_RoundTrip ==
  (codec.op = "roundTrip" /\ codec.value # JsCircular) =>
    (~codec.threw /\ ~codec.rejected /\ codec.result = codec.value)

\* C24: the promise of decrypt never rejects, it gives the sealed value
\* only for an undamaged envelope read with the key that sealed it, and
\* null for a damaged envelope, another key, a payload that is not JSON and
\* a string that is not base64.
C24_DecryptNullOnFailure ==
  codec.op = "decrypt" =>
    /\ ~codec.rejected
    /\ codec.result \in {JsNull, codec.value}
    /\ (codec.damage # "none" \/ codec.item.key # codec.key)
         => codec.result = JsNull
    /\ (codec.damage = "none" /\ codec.item.key = codec.key)
         => codec.result = codec.value

\* an envelope sealing an object was changed and then read with its key
C24_Witness ==
  /\ codec.op = "decrypt"
  /\ codec.damage = "tampered"
  /\ codec.item.key = codec.key
  /\ codec.value = JsObject
  /\ codec.result = JsNull

\* C25 as stated: no two envelopes sealed with one key carry the same IV,
\* and a value sealed twice with one key gives two different envelopes.
C25_NoIVTwice ==
  \A i, j \in 1..Len(codec.sealed) :
    (i < j /\ codec.sealed[i].key = codec.sealed[j].key
       /\ ~codec.sealed[i].threw /\ ~codec.sealed[j].threw) =>
      /\ codec.sealed[i].envelope.iv # codec.sealed[j].envelope.iv
      /\ codec.sealed[i].envelope # codec.sealed[j].envelope

\* C25 as amended: every encrypt call draws an IV of its own from
\* getRandomValues and seals with that draw, so two envelopes of one value
\* and one key differ whenever the two draws differ (two draws of 96 random
\* bits can be equal, and then the envelopes are equal).
C25_IVDrawnPerCall ==
  /\ Len(codec.draws) = Len(codec.sealed)
  /\ \A i \in 1..Len(codec.sealed) :
       codec.sealed[i].envelope.iv = codec.draws[i]
  /\ \A i, j \in 1..Len(codec.sealed) :
       (codec.sealed[i].value = codec.sealed[j].value
          /\ codec.sealed[i].key = codec.sealed[j].key) =>
         (codec.sealed[i].envelope = codec.sealed[j].envelope
            <=> codec.draws[i] = codec.draws[j])

\* one value was sealed twice with one key, the draws differed and so do
\* the envelopes
C25_Witness ==
  /\ Len(codec.sealed) = 2
  /\ codec.sealed[1].value = JsObject /\ codec.sealed[2].value = JsObject
  /\ codec.sealed[1].key = codec.sealed[2].key
  /\ ~codec.sealed[1].threw
  /\ codec.draws[1] # codec.draws[2]
  /\ codec.sealed[1].envelope # codec.sealed[2].envelope

\* C26 as stated: without a clearRateLimit in between, no 60-second span
\* holds more than 5 allowed calls of checkRateLimit('login', 5, 60000);
\* that is, the sixth allowed call after any allowed call comes 60 seconds
\* after it or later.
C26_FivePerMinute ==
  \A i \in 1..Len(rateLimitStore.allowedAt) :
    i + LOGIN_MAX_ATTEMPTS <= Len(rateLimitStore.allowedAt) =>
      rateLimitStore.allowedAt[i + LOGIN_MAX_ATTEMPTS]
        - rateLimitStore.allowedAt[i] >= LOGIN_WINDOW_MS

\* C30 as stated: a rejected call reports a retryAfter of 1 second or more,
\* and the call made retryAfter seconds after a rejection is allowed.
C30_RetryAfterHonoured ==
  LET c == rateLimitStore.last
  IN c.op = "checkRateLimit" =>
       /\ ~c.allowed => c.retryAfter >= 1
       /\ (c.after.some /\ c.at = c.after.at + 1000 * c.after.retryAfter)
            => c.allowed

\* the conditions of C28 on the headers of a request
HeadersAllowed(request) ==
  /\ request.origin.present => request.origin.text \in ALLOWED_ORIGINS
  /\ request.referer.present => request.referer.origin \in ALLOWED_ORIGINS
  /\ request.method = "POST"
       => (request.origin.present /\ request.referer.present)

\* C28 as stated: a request under /api/ is forwarded only if its Origin,
\* when present, is allowed, the origin of its Referer, when present, is
\* allowed and, for a POST, both are present; any other request under /api/
\* is answered with 403 and not forwarded.
C28_ForwardOnlyAllowed ==
  (proxy.pc = "responded" /\ proxy.request.path = "/api/trips") =>
    /\ proxy.response.forwarded => HeadersAllowed(proxy.request)
    /\ ~HeadersAllowed(proxy.request)
         => (proxy.response.status = 403 /\ ~proxy.response.forwarded)

\* since when the logged-in user has been idle: the last activity event,
\* or the login when none followed it
IdleSince ==
  IF idle.lastActivity > idle.loginAt THEN idle.lastActivity ELSE idle.loginAt

\* C27: a logged-in user who has been idle for 15 minutes is logged out
\* (session storage empty, cache key removed, user reset) unless an
\* activity event comes first; and whenever the idle timer starts a logout,
\* 15 minutes or more have passed since the most recent activity event and
\* since the login.
C27_IdleTimeout ==
  /\ (idle.user /\ now >= IdleSince + IDLE_TIMEOUT_MS)
       ~> \/ (~idle.user /\ idle.session = "empty" /\ storage = Absent)
          \/ now < IdleSince + IDLE_TIMEOUT_MS
  /\ [](idle.fired.some =>
          /\ idle.fired.at >= idle.fired.lastActivity + IDLE_TIMEOUT_MS
          /\ idle.fired.at >= idle.loginAt + IDLE_TIMEOUT_MS)

\* the idle timer has logged out a user whose last activity event came
\* after the login
C27_Witness ==
  /\ ~idle.user
  /\ idle.cause = "idle"
  /\ idle.fired.some
  /\ idle.fired.lastActivity > idle.loginAt
  /\ idle.session = "empty"
  /\ storage = Absent

-----------------------------------------------------------------------------
(* C31..C38 *)

\* C32 as stated: in every stored entry isRecent is true exactly when the
\* expiry is 1 hour after cachedAt, and false exactly when it is 7 days
\* after.
C32_FlagAgreesWithExpiry ==
  \A id \in DOMAIN storage.val.metadata :
    LET m == storage.val.metadata[id]
    IN /\ m.isRecent <=> m.expiresAt - m.cachedAt = RECENT_CACHE_DURATION_MS
       /\ ~m.isRecent <=> m.expiresAt - m.cachedAt = OLD_CACHE_DURATION_MS

\* the unexpired entries of the container a call loaded whose stored flag
\* says recent
FlaggedRecent ==
  {id \in DOMAIN last.loaded.metadata :
     /\ id \in DOMAIN last.loaded.transactions
     /\ ~(last.loaded.metadata[id].expiresAt < last.clock)
     /\ last.loaded.metadata[id].isRecent}

\* C33 as stated: shouldFetchTransactions answers true whenever one of the
\* records it got back (in range, unexpired) is flagged isRecent in its
\* metadata, and getCacheStats counts as recent exactly the unexpired
\* entries flagged isRecent.
C33_RecencyIsStoredFlag ==
  /\ last.op = "shouldFetchTransactions" =>
       ((\E i \in 1..Len(last.cached) :
           last.cached[i].CustomerTripId \in FlaggedRecent)
          => last.answer)
  /\ last.op = "getCacheStats" =>
       last.stats.recent = Cardinality(FlaggedRecent)

C34_StorageRoundTrip ==
  (/\ ss.last.op = "getItem"
   /\ ss.prev.op = "setItem" /\ ss.prev.answer
   /\ ss.last.pre = ss.prev.post) =>
    /\ ss.last.ret = ss.prev.arg
    /\ ss.last.post = ss.last.pre
    /\ ss.last.post.kind = "enc"

\* C35 as stated: the first getItem on a legacy plaintext string, JSON or
\* not, beginning with ENC: or not, returns the value of the string and
\* leaves the key in the medium.
C35_LegacyDataKept ==
  (/\ ss.last.op = "getItem" /\ ss.prev.op = "none"
   /\ ss.last.pre \in LegacyItems \cup {PrefixedLegacyItem}) =>
    /\ ss.last.ret = ss.last.pre.text.of
    /\ ss.last.post.kind # "absent"

\* C36: once the derivation of the key has failed, the instance has started
\* exactly one derivation, every setItem that completes answers false, and
\* every getItem of an encrypted entry that completes returns null and
\* leaves the entry in the medium.
C36_FailedDerivationMemoized ==
  ss.keyPromise.state = "rejected" =>
    /\ ss.derivations = 1
    /\ \A c \in Callers :
         ss.calls[c].pc = "done" =>
           /\ ss.calls[c].op = "setItem" => ~ss.calls[c].answer
           /\ (ss.calls[c].op = "getItem" /\ ss.calls[c].stored.kind = "enc")
                => /\ ss.calls[c].ret = JsNull
                   /\ ss.medium = ss.calls[c].stored

\* after the failure one caller's setItem was answered false and another
\* caller's getItem of the stored envelope returned null, the envelope
\* still being there
C36_Witness ==
  /\ ss.keyPromise.state = "rejected"
  /\ \E c, d \in Callers :
       /\ ss.calls[c].pc = "done" /\ ss.calls[c].op = "setItem"
       /\ ~ss.calls[c].answer
       /\ ss.calls[d].pc = "done" /\ ss.calls[d].op = "getItem"
       /\ ss.calls[d].stored.kind = "enc"
       /\ ss.calls[d].ret = JsNull
  /\ ss.medium.kind = "enc"

\* C38 as stated: after migrateToSecureStorage has run on a key whose plain
\* value was JSON, getItem of the key returns the parsed value, whether
\* the plain medium is the wrapped one or another, and whether the
\* encrypted write succeeded or not.
C38_MigrationLosesNothing ==
  (/\ ss.last.op = "getItem"
   /\ ss.prev.op \in {"migrate the wrapped medium", "migrate another medium"}
   /\ ss.prev.pre.text.syntax = "json"
   /\ ss.last.pre = ss.prev.post) =>
    ss.last.ret = ss.prev.arg

\* the records of all answered pages that are not of a violator and whose
\* toll is not zero, in page order
RECURSIVE ExpectedUpTo(_)
ExpectedUpTo(n) ==
  IF n = 0 THEN <<>>
  ELSE ExpectedUpTo(n - 1) \o
       SelectSeq(TransactionsOf(api.responses[n], n),
                 LAMBDA t : t.IsViolator # "true"
                            /\ t.TollAmount.type # "undefined"
                            /\ t.TollAmount.cents # 0)

C31_PagesInOrder ==
  /\ api.requested = [i \in 1..Len(api.requested) |-> i]
  /\ Len(api.requested) =
       Len(api.responses) + (IF api.pc \in {"awaiting", "rejected"} THEN 1 ELSE 0)
  /\ \A i \in 1..Len(api.responses) :
       Len(TransactionsOf(api.responses[i], i)) < PageSize
         <=> (api.pc = "returned" /\ i = Len(api.responses))
  /\ api.pc = "returned" =>
       /\ api.promise.state = "resolved"
       /\ api.promise.value = ExpectedUpTo(Len(api.responses))
  /\ api.pc = "rejected" =>
       /\ api.promise.state = "rejected"
       /\ api.promise.value = <<>>

\* C31: fetchTransactions requests pages 1, 2, 3, ... one at a time, stops
\* after the first page of fewer than 50 records, and resolves with the
\* non-violator, non-zero-toll records of all fetched pages in page order;
\* a failure on a page rejects the call with no partial result; and a
\* call whose requests are answered, a short page among the answers,
\* comes to an end.
C31_FetchTransactions ==
  /\ []C31_PagesInOrder
  /\ (api.pc = "awaiting") ~> (api.pc \in {"returned", "rejected"})

C31_Witness ==
  /\ api.pc = "returned"
  /\ Len(api.responses) = MaxPages
  /\ \A n \in 1..MaxPages : \E i \in 1..Len(api.promise.value) :
       api.promise.value[i].page = n
  /\ Len(api.promise.value) < (MaxPages - 1) * PageSize

====
